---- MODULE Spec2Model ----
(***************************************************************************)
(* KessanView: statement normalisation and comparative scoring.            *)
(*                                                                         *)
(* State: the financial_statements table, the earnings_scores table, the   *)
(* ai_analysis_results table, the weights of the ScoringService instance,  *)
(* the last call made (its name, arguments and return value) and the calls *)
(* in progress where a call is followed step by step.                      *)
(*                                                                         *)
(* Encoding of Python / SQL values:                                        *)
(*   - an optional float is a sequence: << >> is None, <<v>> is v;         *)
(*     statement figures are integers (exact), change rates are exact      *)
(*     rationals [some, num, den] with den > 0;                            *)
(*   - a date is the integer YYYYMMDD, NoDate (0) is None / SQL NULL;      *)
(*   - a period-type or document-type string is a TLA+ string, NoStr is    *)
(*     None / SQL NULL;                                                    *)
(*   - a disclosure number is a sequence of digits (so that Python's       *)
(*     lexical string comparison can be computed), NoDisc is None / NULL.  *)
(***************************************************************************)
EXTENDS Integers, Sequences, FiniteSets, TLC

VARIABLES
    financial_statements,   \* rows of table financial_statements
    earnings_scores,        \* rows of table earnings_scores
    weights,                \* ScoringService.weights
    call,                   \* name of the last operation executed
    args,                   \* its arguments
    ret,                    \* its return value
    tasks,                  \* the calls in progress: position and locals
    ai_analysis_results     \* rows of table ai_analysis_results

vars == <<financial_statements, earnings_scores, weights, call, args, ret, tasks,
         ai_analysis_results>>

----------------------------------------------------------------------------
(* Absent values *)

NoNum == << >>
NoDate == 0
NoStr == "NULL"
NoDisc == <<-1>>

Some(v) == <<v>>
IsSome(x) == x # NoNum
Val(x) == x[1]

\* date.min = 0001-01-01
DateMin == 10101

Year(d) == d \div 10000

\* .first() of a query without ORDER BY: the row with the least rowid
FirstRow(rows) == CHOOSE r \in rows : \A s \in rows : r.id <= s.id

\* the greatest id of a table; the next row gets the one after it
MaxId(table) ==
    IF table = {} THEN 0 ELSE (CHOOSE r \in table : \A s \in table : r.id >= s.id).id

----------------------------------------------------------------------------
(* Strings *)

\* Python str < str on digit strings: lexical comparison, a proper prefix
\* is smaller.
StrLT(a, b) ==
    \E i \in 1..Len(b) :
        /\ i <= Len(a) + 1
        /\ \A j \in 1..(i - 1) : a[j] = b[j]
        /\ (i = Len(a) + 1 \/ a[i] < b[i])

StrGT(a, b) == StrLT(b, a)

\* `x or ""` for a disclosure number
DiscOrEmpty(d) == IF d = NoDisc THEN << >> ELSE d

\* `x or ""` for a string column
StrOrEmpty(s) == IF s = NoStr THEN "" ELSE s

\* str(date) / str(None): the ISO text of a date as <<year, month, day>>;
\* the text "None" of a missing date, which no date prints as, is << >>
StrDate(d) ==
    IF d = NoDate THEN << >>
    ELSE <<Year(d), (d \div 100) % 100, d % 100>>

----------------------------------------------------------------------------
(* financial_analysis.py *)

PERIOD_ORDER == [p \in {"1Q", "2Q", "3Q", "FY"} |->
                    CASE p = "1Q" -> 1 [] p = "2Q" -> 2 [] p = "3Q" -> 3 [] p = "FY" -> 4]

\* PERIOD_ORDER.get(p, 0)
PeriodOrderGet(p) == IF p \in DOMAIN PERIOD_ORDER THEN PERIOD_ORDER[p] ELSE 0

EARNINGS_DOC_TYPES == "FinancialStatements"

\* A document-type label is modelled as the sequence of its parts
\* (e.g. <<"2Q", "FinancialStatements", "Consolidated">>); `marker in label`
\* holds when one part is the marker.
Contains(label, marker) == \E i \in 1..Len(label) : label[i] = marker

NoDoc == <<"NULL">>

\* mutant: any non-empty label counts as an earnings statement
_is_earnings_statement_AnyLabel(doc_type) ==
    doc_type # NoDoc /\ doc_type # << >>

_is_earnings_statement(doc_type) ==
    IF doc_type = NoDoc \/ doc_type = << >> THEN FALSE
    ELSE Contains(doc_type, EARNINGS_DOC_TYPES)

\* get_statements_for_code, the store read: rows of the company ordered by
\* (current_fiscal_year_end_date, current_period_end_date, disclosure_number)
\* ascending; SQLite puts NULL first and compares text bytewise; rows equal
\* on the three columns come in rowid order.
SqlDiscLT(a, b) ==
    IF a = NoDisc THEN b # NoDisc
    ELSE b # NoDisc /\ StrLT(a, b)

SqlBefore(r, s) ==
    \/ r.current_fiscal_year_end_date < s.current_fiscal_year_end_date
    \/ /\ r.current_fiscal_year_end_date = s.current_fiscal_year_end_date
       /\ \/ r.current_period_end_date < s.current_period_end_date
          \/ /\ r.current_period_end_date = s.current_period_end_date
             /\ \/ SqlDiscLT(r.disclosure_number, s.disclosure_number)
                \/ /\ ~SqlDiscLT(s.disclosure_number, r.disclosure_number)
                   /\ r.id < s.id

RECURSIVE OrderBy(_)
OrderBy(rows) ==
    IF rows = {} THEN << >>
    ELSE LET first == CHOOSE r \in rows : \A s \in rows \ {r} : SqlBefore(r, s)
         IN  <<first>> \o OrderBy(rows \ {first})

QueryByCode(table, code) == OrderBy({r \in table : r.code = code})

\* step 1: keep the earnings statements
EarningsOnly(all_records) ==
    SelectSeq(all_records, LAMBDA s : _is_earnings_statement(s.type_of_document))

\* step 2: the dict `deduped`, as the sequence of its (key, value) items in
\* insertion order
DedupKey(s) ==
    <<StrDate(s.current_fiscal_year_end_date), StrOrEmpty(s.type_of_current_period)>>

\* the number a digit string reads as
RECURSIVE DiscNumber(_)
DiscNumber(d) ==
    IF d = << >> THEN 0 ELSE 10 * DiscNumber(SubSeq(d, 1, Len(d) - 1)) + d[Len(d)]

\* mutant: disclosure numbers compared as numbers
NewerDisc_Numeric(s, existing) ==
    DiscNumber(DiscOrEmpty(s.disclosure_number))
        > DiscNumber(DiscOrEmpty(existing.disclosure_number))

NewerDisc(s, existing) ==
    StrGT(DiscOrEmpty(s.disclosure_number), DiscOrEmpty(existing.disclosure_number))

DictPut(d, s) ==
    IF \E i \in 1..Len(d) : d[i].key = DedupKey(s)
    THEN LET i == CHOOSE i \in 1..Len(d) : d[i].key = DedupKey(s)
         IN  IF NewerDisc(s, d[i].value)
             THEN [d EXCEPT ![i] = [key |-> DedupKey(s), value |-> s]]
             ELSE d
    ELSE Append(d, [key |-> DedupKey(s), value |-> s])

RECURSIVE DedupedFrom(_, _, _)
DedupedFrom(earnings_only, i, d) ==
    IF i > Len(earnings_only) THEN d
    ELSE DedupedFrom(earnings_only, i + 1, DictPut(d, earnings_only[i]))

Deduped(earnings_only) == DedupedFrom(earnings_only, 1, << >>)

DictValues(d) == [i \in 1..Len(d) |-> d[i].value]

\* step 3: sorted(..., key=(fiscal year end or date.min, period rank)),
\* Python's sort is stable
SortDate(s) ==
    IF s.current_fiscal_year_end_date = NoDate THEN DateMin
    ELSE s.current_fiscal_year_end_date

SortRank(s) == PeriodOrderGet(StrOrEmpty(s.type_of_current_period))

\* mutant: sorted by fiscal year end alone
SortKeyLT_DateOnly(a, b) == SortDate(a) < SortDate(b)

SortKeyLT(a, b) ==
    \/ SortDate(a) < SortDate(b)
    \/ SortDate(a) = SortDate(b) /\ SortRank(a) < SortRank(b)

\* insert x after the last element that is not greater than it
InsertSorted(sorted, x) ==
    LET n == Cardinality({i \in 1..Len(sorted) : ~SortKeyLT(x, sorted[i])})
    IN  SubSeq(sorted, 1, n) \o <<x>> \o SubSeq(sorted, n + 1, Len(sorted))

RECURSIVE SortedFrom(_, _, _)
SortedFrom(values, i, acc) ==
    IF i > Len(values) THEN acc
    ELSE SortedFrom(values, i + 1, InsertSorted(acc, values[i]))

Sorted(values) == SortedFrom(values, 1, << >>)

\* the list built from the rows read
Resolve(all_records) == Sorted(DictValues(Deduped(EarningsOnly(all_records))))

\* mutant: the store rows as read, neither filtered nor deduplicated
get_statements_for_code_Unresolved(table, code) == QueryByCode(table, code)

get_statements_for_code(table, code) == Resolve(QueryByCode(table, code))

(* Change rates are exact rationals num/den in lowest terms, den > 0 *)

Abs(x) == IF x < 0 THEN -x ELSE x

RECURSIVE GCD(_, _)
GCD(a, b) == IF b = 0 THEN a ELSE GCD(b, a % b)

NoRate == [some |-> FALSE, num |-> 0, den |-> 1]

Rate(n, d) ==
    LET g == GCD(Abs(n), d)
    IN  [some |-> TRUE, num |-> n \div g, den |-> d \div g]

\* mutant: divided by previous instead of abs(previous)
_change_rate_SignedBase(current, previous) ==
    IF current = NoNum \/ previous = NoNum THEN NoRate
    ELSE IF Val(previous) = 0
         THEN IF Val(current) = 0 THEN Rate(0, 1)
              ELSE IF Val(current) > 0 THEN Rate(100, 1) ELSE Rate(-100, 1)
    ELSE IF Val(previous) > 0
         THEN Rate((Val(current) - Val(previous)) * 100, Val(previous))
         ELSE Rate((Val(previous) - Val(current)) * 100, -Val(previous))

_change_rate(current, previous) ==
    IF current = NoNum \/ previous = NoNum THEN NoRate
    ELSE IF Val(previous) = 0
         THEN IF Val(current) = 0 THEN Rate(0, 1)
              ELSE IF Val(current) > 0 THEN Rate(100, 1) ELSE Rate(-100, 1)
    ELSE Rate((Val(current) - Val(previous)) * 100, Abs(Val(previous)))

(* An optional statement is a sequence: << >> is None, <<s>> is s *)

NoStatement == << >>

\* the first statement of the list with the fiscal year and the period type
\* asked for that is not `current`
FirstMatch(statements, current, target_fy_year, target_period) ==
    LET hits == {i \in 1..Len(statements) :
                    /\ statements[i].current_fiscal_year_end_date # NoDate
                    /\ Year(statements[i].current_fiscal_year_end_date) = target_fy_year
                    /\ statements[i].type_of_current_period = target_period
                    /\ statements[i].id # current.id}
    IN  IF hits = {} THEN NoStatement
        ELSE <<statements[CHOOSE i \in hits : \A j \in hits : i <= j]>>

\* mutant: the same fiscal year is searched
find_previous_year_statement_SameYear(statements, current) ==
    IF current.current_fiscal_year_end_date = NoDate
       \/ current.type_of_current_period \in {NoStr, ""}
    THEN NoStatement
    ELSE FirstMatch(statements, current,
                    Year(current.current_fiscal_year_end_date),
                    current.type_of_current_period)

find_previous_year_statement(statements, current) ==
    IF current.current_fiscal_year_end_date = NoDate
       \/ current.type_of_current_period \in {NoStr, ""}
    THEN NoStatement
    ELSE FirstMatch(statements, current,
                    Year(current.current_fiscal_year_end_date) - 1,
                    current.type_of_current_period)

\* rev_map.get(order, "")
RevMapGet(order) ==
    IF \E p \in DOMAIN PERIOD_ORDER : PERIOD_ORDER[p] = order
    THEN CHOOSE p \in DOMAIN PERIOD_ORDER : PERIOD_ORDER[p] = order
    ELSE ""

\* mutant: a first quarter is compared with the FY of its own fiscal year
find_previous_quarter_statement_NoYearStep(statements, current) ==
    IF current.current_fiscal_year_end_date = NoDate
       \/ current.type_of_current_period \in {NoStr, ""}
    THEN NoStatement
    ELSE LET current_order == PeriodOrderGet(current.type_of_current_period)
         IN  IF current_order = 0 THEN NoStatement
             ELSE IF current_order = 1
             THEN FirstMatch(statements, current,
                             Year(current.current_fiscal_year_end_date), "FY")
             ELSE FirstMatch(statements, current,
                             Year(current.current_fiscal_year_end_date),
                             RevMapGet(current_order - 1))

find_previous_quarter_statement(statements, current) ==
    IF current.current_fiscal_year_end_date = NoDate
       \/ current.type_of_current_period \in {NoStr, ""}
    THEN NoStatement
    ELSE LET current_order == PeriodOrderGet(current.type_of_current_period)
         IN  IF current_order = 0 THEN NoStatement
             ELSE IF current_order = 1
             THEN FirstMatch(statements, current,
                             Year(current.current_fiscal_year_end_date) - 1, "FY")
             ELSE FirstMatch(statements, current,
                             Year(current.current_fiscal_year_end_date),
                             RevMapGet(current_order - 1))

\* the result dict of compare_year_over_year / compare_quarter_over_quarter;
\* the error dict {"code", "error"} has error = TRUE and every other key
\* absent (dict.get gives None)
ErrorResult(code) ==
    [error |-> TRUE, code |-> code,
     net_sales |-> NoRate, operating_profit |-> NoRate,
     ordinary_profit |-> NoRate, profit |-> NoRate,
     current |-> NoStatement, previous |-> NoStatement]

Comparison(code, current, previous) ==
    [error |-> FALSE, code |-> code,
     net_sales |->
         IF previous = NoStatement THEN NoRate
         ELSE _change_rate(current.net_sales, previous[1].net_sales),
     operating_profit |->
         IF previous = NoStatement THEN NoRate
         ELSE _change_rate(current.operating_profit, previous[1].operating_profit),
     ordinary_profit |->
         IF previous = NoStatement THEN NoRate
         ELSE _change_rate(current.ordinary_profit, previous[1].ordinary_profit),
     profit |->
         IF previous = NoStatement THEN NoRate
         ELSE _change_rate(current.profit, previous[1].profit),
     current |-> <<current>>, previous |-> previous]

\* target_statement or statements[-1]
TargetOrLast(statements, target_statement) ==
    IF target_statement = NoStatement THEN statements[Len(statements)]
    ELSE target_statement[1]

compare_year_over_year(table, code, target_statement) ==
    LET statements == get_statements_for_code(table, code)
    IN  IF statements = << >> THEN ErrorResult(code)
        ELSE LET current == TargetOrLast(statements, target_statement)
             IN  Comparison(code, current,
                            find_previous_year_statement(statements, current))

compare_quarter_over_quarter(table, code, target_statement) ==
    LET statements == get_statements_for_code(table, code)
    IN  IF statements = << >> THEN ErrorResult(code)
        ELSE LET current == TargetOrLast(statements, target_statement)
             IN  Comparison(code, current,
                            find_previous_quarter_statement(statements, current))

\* a signal string, as the tag it contains and the fact it names
Signal(tag, label) == [tag |-> tag, label |-> label]

\* val >= 30, val <= -30 on a rate
RateGE(r, k) == r.num >= k * r.den
RateLE(r, k) == r.num <= k * r.den

\* mutant: a move of exactly 30 per cent is not a large move
LargeMove_Strict(label, val) ==
    IF ~val.some THEN << >>
    ELSE IF val.num > 30 * val.den THEN <<Signal("large_increase", label)>>
    ELSE IF val.num < -30 * val.den THEN <<Signal("large_decrease", label)>>
    ELSE << >>

LargeMove(label, val) ==
    IF ~val.some THEN << >>
    ELSE IF RateGE(val, 30) THEN <<Signal("large_increase", label)>>
    ELSE IF RateLE(val, -30) THEN <<Signal("large_decrease", label)>>
    ELSE << >>

\* mutant: a profit of exactly 0 is no return to profit
Turnaround_Positive(current, previous) ==
    IF current.profit = NoNum \/ previous.profit = NoNum THEN << >>
    ELSE IF Val(previous.profit) < 0 /\ Val(current.profit) > 0
         THEN <<Signal("turned_profitable", "profit")>>
    ELSE IF Val(previous.profit) >= 0 /\ Val(current.profit) < 0
         THEN <<Signal("turned_unprofitable", "profit")>>
    ELSE << >>

Turnaround(current, previous) ==
    IF current.profit = NoNum \/ previous.profit = NoNum THEN << >>
    ELSE IF Val(previous.profit) < 0 /\ Val(current.profit) >= 0
         THEN <<Signal("turned_profitable", "profit")>>
    ELSE IF Val(previous.profit) >= 0 /\ Val(current.profit) < 0
         THEN <<Signal("turned_unprofitable", "profit")>>
    ELSE << >>

\* the record-high check; `statements` is the list read again from the store
RecordHigh(statements, current) ==
    IF current.operating_profit = NoNum THEN << >>
    ELSE LET same_period ==
                 {i \in 1..Len(statements) :
                     /\ statements[i].type_of_current_period = current.type_of_current_period
                     /\ statements[i].operating_profit # NoNum
                     /\ statements[i].id # current.id}
         IN  IF same_period # {}
                /\ \A i \in same_period :
                       Val(current.operating_profit) > Val(statements[i].operating_profit)
             THEN <<Signal("record_high", "operating_profit")>>
             ELSE << >>

\* detect_signals, from the year-over-year result it computed and the list
\* of its second read of the store
SignalsOf(yoy, statements) ==
    IF yoy.error THEN << >>
    ELSE LargeMove("net_sales", yoy.net_sales)
         \o LargeMove("operating_profit", yoy.operating_profit)
         \o LargeMove("ordinary_profit", yoy.ordinary_profit)
         \o LargeMove("profit", yoy.profit)
         \o (IF yoy.current # NoStatement /\ yoy.previous # NoStatement
             THEN Turnaround(yoy.current[1], yoy.previous[1])
                  \o RecordHigh(statements, yoy.current[1])
             ELSE << >>)

detect_signals(table, code, target_statement) ==
    SignalsOf(compare_year_over_year(table, code, target_statement),
              get_statements_for_code(table, code))

----------------------------------------------------------------------------
(* scoring.py *)

(* Sub-scores are fixed-point numbers in units of 1/10000, weights in      *)
(* units of 1/100, the total score in units of 1/10.                       *)

One == 10000
Half == 5000

\* 1 / (1 + exp(-x)) at x = 0, 1, ..., 10, rounded to 1/10000
Logistic == <<5000, 7311, 8808, 9526, 9820, 9933, 9975, 9991, 9997, 9999, 10000>>

\* floor(100 * scale * |value|), scale given in hundredths (0.05 is 5)
CentiX(value, scale) == (scale * Abs(value.num)) \div value.den

\* 1 / (1 + exp(-x)) for x = cx / 100 >= 0: the table, interpolated
LogisticAt(cx) ==
    IF cx >= 1000 THEN One
    ELSE LET k == cx \div 100
         IN  Logistic[k + 1] + ((Logistic[k + 2] - Logistic[k + 1]) * (cx % 100)) \div 100

\* math.exp raises OverflowError above 709.78
ExpOverflows(value, scale) ==
    value.some /\ value.num < 0 /\ CentiX(value, scale) > 70978

\* mutant: an absent value scores 0
_sigmoid_score_AbsentZero(value, scale) ==
    IF ~value.some THEN 0
    ELSE IF value.num >= 0 THEN LogisticAt(CentiX(value, scale))
    ELSE One - LogisticAt(CentiX(value, scale))

_sigmoid_score(value, scale) ==
    IF ~value.some THEN Half
    ELSE IF value.num >= 0 THEN LogisticAt(CentiX(value, scale))
    ELSE One - LogisticAt(CentiX(value, scale))

RateSub(a, b) == Rate(a.num * b.den - b.num * a.den, a.den * b.den)

\* qoq_op - yoy_op, or None
Acceleration(qoq, yoy) ==
    IF qoq.operating_profit.some /\ yoy.operating_profit.some
    THEN RateSub(qoq.operating_profit, yoy.operating_profit)
    ELSE NoRate

\* the flag loops: the first signal that carries one of the two tags decides
RECURSIVE FlagFrom(_, _, _, _)
FlagFrom(signals, i, up, down) ==
    IF i > Len(signals) THEN 0
    ELSE IF signals[i].tag = up THEN 1
    ELSE IF signals[i].tag = down THEN -1
    ELSE FlagFrom(signals, i + 1, up, down)

\* mutant: a flag of 0 scores like a flag of -1
FlagScore_Binary(flag) == IF flag = 1 THEN One ELSE 0

\* {1: 1.0, -1: 0.0, 0: 0.5}[flag]
FlagScore(flag) == IF flag = 1 THEN One ELSE IF flag = -1 THEN 0 ELSE Half

\* round(x, 1) of x = n / d >= 0 in tenths, ties to even
RoundHalfEven(n, d) ==
    LET q == n \div d
        r == n % d
    IN  IF 2 * r > d THEN q + 1
        ELSE IF 2 * r < d THEN q
        ELSE IF q % 2 = 0 THEN q ELSE q + 1

Min(a, b) == IF a < b THEN a ELSE b
Max(a, b) == IF a > b THEN a ELSE b

\* mutant: the result of round() is returned without the clamp
Clamp_None(total_score) == total_score

\* max(0, min(100, total_score)), in tenths
Clamp(total_score) == Max(0, Min(1000, total_score))

\* mutant: the thresholds are exclusive
Category_Exclusive(total_score) ==
    IF total_score > 800 THEN "attention"
    ELSE IF total_score > 500 THEN "review"
    ELSE "normal"

Category(total_score) ==
    IF total_score >= 800 THEN "attention"
    ELSE IF total_score >= 500 THEN "review"
    ELSE "normal"

\* an exception leaving score_single or score_and_save, in the shape of a
\* result
Raised(code, exception) ==
    [raised |-> TRUE, exception |-> exception, code |-> code, total_score |-> 0, category |-> "",
     yoy_sales_change |-> NoRate, yoy_op_change |-> NoRate,
     yoy_profit_change |-> NoRate, qoq_acceleration |-> NoRate,
     revision_flag |-> 0, turnaround_flag |-> 0, signals |-> << >>]

\* score_single from the results of its three calls to the analyzer
ScoreOf(w, code, yoy, qoq, signals) ==
    LET accel == Acceleration(qoq, yoy)
        revision_flag == FlagFrom(signals, 1, "large_increase", "large_decrease")
        turnaround_flag == FlagFrom(signals, 1, "turned_profitable", "turned_unprofitable")
        weighted_score ==
            w.yoy_sales * _sigmoid_score(yoy.net_sales, 5)
            + w.yoy_operating_income * _sigmoid_score(yoy.operating_profit, 5)
            + w.yoy_profit * _sigmoid_score(yoy.profit, 5)
            + w.qoq_acceleration * _sigmoid_score(accel, 3)
            + w.revision_flag * FlagScore(revision_flag)
            + w.turnaround_flag * FlagScore(turnaround_flag)
        total_score == Clamp(RoundHalfEven(weighted_score, 1000))
    IN  IF \/ ExpOverflows(yoy.net_sales, 5)
           \/ ExpOverflows(yoy.operating_profit, 5)
           \/ ExpOverflows(yoy.profit, 5)
           \/ ExpOverflows(accel, 3)
        THEN Raised(code, "OverflowError")
        ELSE [raised |-> FALSE, exception |-> "", code |-> code,
              total_score |-> total_score,
              category |-> Category(total_score),
              yoy_sales_change |-> yoy.net_sales,
              yoy_op_change |-> yoy.operating_profit,
              yoy_profit_change |-> yoy.profit,
              qoq_acceleration |-> accel,
              revision_flag |-> revision_flag,
              turnaround_flag |-> turnaround_flag,
              signals |-> signals]

score_single(table, w, code, target_statement) ==
    ScoreOf(w, code,
            compare_year_over_year(table, code, target_statement),
            compare_quarter_over_quarter(table, code, target_statement),
            detect_signals(table, code, target_statement))

\* A date text is a sequence of decimal digits and hyphens.
Hyphen == -1

RECURSIVE Digits(_, _)
Digits(n, width) ==
    IF width = 0 THEN << >> ELSE Append(Digits(n \div 10, width - 1), n % 10)

\* strftime("%Y-%m-%d")
IsoText(d) ==
    Digits(d \div 10000, 4) \o <<Hyphen>> \o Digits((d \div 100) % 100, 2)
        \o <<Hyphen>> \o Digits(d % 100, 2)

RECURSIVE DigitsToInt(_)
DigitsToInt(digits) ==
    IF digits = << >> THEN 0
    ELSE 10 * DigitsToInt(SubSeq(digits, 1, Len(digits) - 1)) + digits[Len(digits)]

\* datetime.strptime(text.replace("-", ""), "%Y%m%d").date(); NoDate stands
\* for the ValueError of a text that is not eight digits
ParseDateText(text) ==
    LET digits == SelectSeq(text, LAMBDA c : c # Hyphen)
    IN  IF Len(digits) = 8 THEN DigitsToInt(digits) ELSE NoDate

\* the columns score_and_save writes
ScoreValues(code, dt, disclosure_number, result) ==
    [code |-> code,
     disclosed_date |-> dt,
     disclosure_number |-> disclosure_number,
     yoy_sales_change |-> result.yoy_sales_change,
     yoy_op_change |-> result.yoy_op_change,
     yoy_profit_change |-> result.yoy_profit_change,
     qoq_acceleration |-> result.qoq_acceleration,
     revision_flag |-> result.revision_flag,
     turnaround_flag |-> result.turnaround_flag,
     total_score |-> result.total_score,
     category |-> result.category]

ScoreRow(values, id) ==
    [id |-> id,
     code |-> values.code,
     disclosed_date |-> values.disclosed_date,
     disclosure_number |-> values.disclosure_number,
     yoy_sales_change |-> values.yoy_sales_change,
     yoy_op_change |-> values.yoy_op_change,
     yoy_profit_change |-> values.yoy_profit_change,
     qoq_acceleration |-> values.qoq_acceleration,
     revision_flag |-> values.revision_flag,
     turnaround_flag |-> values.turnaround_flag,
     total_score |-> values.total_score,
     category |-> values.category]

\* mutant: the existing record is not looked up
ExistingScores_None(scores, code, disclosure_number) == {}

\* query(EarningsScore).filter_by(code=, disclosure_number=)
ExistingScores(scores, code, disclosure_number) ==
    {r \in scores : r.code = code /\ r.disclosure_number = disclosure_number}

\* uq_score_code_disclosure: UNIQUE (code, disclosure_number)
ScoreKeyTaken(scores, values) ==
    \E r \in scores :
        /\ r.code = values.code
        /\ r.disclosure_number = values.disclosure_number
        /\ values.disclosure_number # NoDisc

\* the session of score_and_save: update or add, commit, or rollback and
\* re-raise
SaveResult(scores, values, result) ==
    LET existing == ExistingScores(scores, values.code, values.disclosure_number)
    IN  IF existing # {}
        THEN [scores |-> (scores \ {FirstRow(existing)})
                             \cup {ScoreRow(values, FirstRow(existing).id)},
              ret |-> result]
        ELSE IF ScoreKeyTaken(scores, values)
        THEN [scores |-> scores, ret |-> Raised(values.code, "IntegrityError")]
        ELSE [scores |-> scores \cup {ScoreRow(values, MaxId(scores) + 1)},
              ret |-> result]

\* score_and_save on the two tables: the score table it leaves and what it
\* returns or raises
score_and_save(table, scores, w, code, disclosed_date, disclosure_number, target_statement) ==
    LET result == score_single(table, w, code, target_statement)
        dt == ParseDateText(disclosed_date)
    IN  IF result.raised THEN [scores |-> scores, ret |-> result]
        ELSE IF dt = NoDate
        THEN [scores |-> scores, ret |-> Raised(code, "ValueError")]
        ELSE SaveResult(scores,
                        ScoreValues(code, dt, disclosure_number, result), result)

\* FinancialStatement.disclosed_date == dt
DisclosedOn(table, dt) == {r \in table : r.disclosed_date = dt}

\* the orders in which .all() can return the rows: the query has no ORDER BY
Orderings(rows) ==
    {f \in [1..Cardinality(rows) -> rows] :
        \A i, j \in 1..Cardinality(rows) : i # j => f[i] # f[j]}

\* the result of score_and_save with the fields score_all_for_date adds
\* (the name of the stock master is left out)
BatchEntry(result, target_date, stmt) ==
    [code |-> result.code,
     total_score |-> result.total_score,
     category |-> result.category,
     yoy_sales_change |-> result.yoy_sales_change,
     yoy_op_change |-> result.yoy_op_change,
     yoy_profit_change |-> result.yoy_profit_change,
     qoq_acceleration |-> result.qoq_acceleration,
     revision_flag |-> result.revision_flag,
     turnaround_flag |-> result.turnaround_flag,
     signals |-> result.signals,
     disclosed_date |-> target_date,
     period |-> StrOrEmpty(stmt.type_of_current_period),
     net_sales |-> stmt.net_sales,
     operating_profit |-> stmt.operating_profit,
     profit |-> stmt.profit]

\* mutant: the entry of a failed statement is appended as well
Collected_Always(results, result, entry) == Append(results, entry)

\* try: ... results.append(result); except Exception: warning
Collected(results, result, entry) ==
    IF result.raised THEN results ELSE Append(results, entry)

\* mutant: the callback is called inside the try block, after the append
ProgressAfter_OnSuccess(progress, progress_callback, result, i, total) ==
    IF progress_callback /\ ~result.raised THEN Append(progress, <<i, total>>)
    ELSE progress

\* if progress_callback: progress_callback(i, total); `progress` is the
\* sequence of the calls the callback has received
ProgressAfter(progress, progress_callback, result, i, total) ==
    IF progress_callback THEN Append(progress, <<i, total>>) ELSE progress

\* the loop over the statements of the date
RECURSIVE BatchLoop(_, _, _, _, _, _, _, _, _)
BatchLoop(statements, i, table, w, target_date, progress_callback, scores, results, progress) ==
    IF i > Len(statements)
    THEN [scores |-> scores, results |-> results, progress |-> progress]
    ELSE LET stmt == statements[i]
             out == score_and_save(table, scores, w, stmt.code, target_date,
                                   DiscOrEmpty(stmt.disclosure_number), <<stmt>>)
         IN  BatchLoop(statements, i + 1, table, w, target_date, progress_callback,
                       out.scores,
                       Collected(results, out.ret,
                                 BatchEntry(out.ret, target_date, stmt)),
                       ProgressAfter(progress, progress_callback, out.ret,
                                     i, Len(statements)))

\* list.sort(key=total_score, reverse=True): stable, so entries of equal
\* score keep their order
InsertByScore(sorted, x) ==
    LET n == Cardinality({i \in 1..Len(sorted) :
                             sorted[i].total_score >= x.total_score})
    IN  SubSeq(sorted, 1, n) \o <<x>> \o SubSeq(sorted, n + 1, Len(sorted))

RECURSIVE SortByScoreFrom(_, _, _)
SortByScoreFrom(results, i, acc) ==
    IF i > Len(results) THEN acc
    ELSE SortByScoreFrom(results, i + 1, InsertByScore(acc, results[i]))

\* mutant: the results are returned in the order of processing
SortByScore_None(results) == results

SortByScore(results) == SortByScoreFrom(results, 1, << >>)

\* score_all_for_date, `statements` being the rows of the date in the order
\* the query returned them
score_all_for_date(table, scores, w, target_date, statements, progress_callback) ==
    LET loop == BatchLoop(statements, 1, table, w, target_date, progress_callback,
                          scores, << >>, << >>)
    IN  [scores |-> loop.scores,
         ret |-> [raised |-> FALSE,
                  results |-> SortByScore(loop.results),
                  progress |-> loop.progress]]

----------------------------------------------------------------------------
(* sync.py *)

\* the columns sync_statements_by_date writes, from one item of the API data
StatementValues(item) ==
    [code |-> item.Code,
     disclosed_date |-> item.DiscDate,
     disclosure_number |-> item.DiscNo,
     type_of_document |-> item.DocType,
     type_of_current_period |-> item.CurPerType,
     current_period_end_date |-> item.CurPerEn,
     current_fiscal_year_end_date |-> item.CurFYEn,
     net_sales |-> item.Sales,
     operating_profit |-> item.OP,
     ordinary_profit |-> item.OdP,
     profit |-> item.NP]

WithId(values, id) ==
    [id |-> id,
     code |-> values.code,
     disclosed_date |-> values.disclosed_date,
     disclosure_number |-> values.disclosure_number,
     type_of_document |-> values.type_of_document,
     type_of_current_period |-> values.type_of_current_period,
     current_period_end_date |-> values.current_period_end_date,
     current_fiscal_year_end_date |-> values.current_fiscal_year_end_date,
     net_sales |-> values.net_sales,
     operating_profit |-> values.operating_profit,
     ordinary_profit |-> values.ordinary_profit,
     profit |-> values.profit]

\* query(...).filter_by(code=, disclosure_number=): the stored rows with the
\* key (None matches NULL); the session does not autoflush, so rows added
\* earlier in the same call are not among them
StoredWithKey(table, code, disclosure_number) ==
    {r \in table : r.code = code /\ r.disclosure_number = disclosure_number}

\* the loop over the items: `table` holds the loaded rows with the values
\* set on them, `added` the new objects in the order of session.add
RECURSIVE SyncLoop(_, _, _, _)
SyncLoop(data, i, table, added) ==
    IF i > Len(data) THEN [table |-> table, added |-> added]
    ELSE LET item == data[i]
             existing == StoredWithKey(table, item.Code, item.DiscNo)
         IN  IF item.Code = "" \/ item.Code = NoStr
             THEN SyncLoop(data, i + 1, table, added)
             ELSE IF existing # {}
             THEN SyncLoop(data, i + 1,
                      (table \ {FirstRow(existing)})
                          \cup {WithId(StatementValues(item), FirstRow(existing).id)},
                      added)
             ELSE SyncLoop(data, i + 1, table, Append(added, StatementValues(item)))

\* uq_fs_code_disclosure: UNIQUE (code, disclosure_number); NULLs are distinct
UniqueViolated(added) ==
    \E i, j \in 1..Len(added) :
        /\ i < j
        /\ added[i].code = added[j].code
        /\ added[i].disclosure_number = added[j].disclosure_number
        /\ added[i].disclosure_number # NoDisc

\* session.commit(), or rollback and re-raise
SyncResult(table, data) ==
    LET s == SyncLoop(data, 1, table, << >>)
        base == MaxId(table)
    IN  IF UniqueViolated(s.added)
        THEN [table |-> table, ret |-> "IntegrityError"]
        ELSE [table |-> s.table \cup
                        {WithId(s.added[k], base + k) : k \in 1..Len(s.added)},
              ret |-> "ok"]

sync_statements_by_date(data) ==
    LET out == SyncResult(financial_statements, data)
    IN  /\ financial_statements' = out.table
        /\ call' = "sync_statements_by_date"
        /\ args' = data
        /\ ret' = out.ret
        /\ UNCHANGED <<earnings_scores, weights, ai_analysis_results>>

----------------------------------------------------------------------------
(* Operations of FinancialAnalyzer *)

\* mutant: expunge_all() deletes the rows it detaches
GetStatementsForCode_Consuming(code) ==
    /\ call' = "get_statements_for_code"
    /\ args' = code
    /\ ret' = get_statements_for_code(financial_statements, code)
    /\ financial_statements' = {r \in financial_statements : r.code # code}
    /\ UNCHANGED <<earnings_scores, weights, ai_analysis_results, tasks>>

GetStatementsForCode(code) ==
    /\ call' = "get_statements_for_code"
    /\ args' = code
    /\ ret' = get_statements_for_code(financial_statements, code)
    /\ UNCHANGED <<financial_statements, earnings_scores, weights, tasks,
                   ai_analysis_results>>

CompareYearOverYear(code, target_statement) ==
    /\ call' = "compare_year_over_year"
    /\ args' = <<code, target_statement>>
    /\ ret' = compare_year_over_year(financial_statements, code, target_statement)
    /\ UNCHANGED <<financial_statements, earnings_scores, weights, tasks,
                   ai_analysis_results>>

CompareQuarterOverQuarter(code, target_statement) ==
    /\ call' = "compare_quarter_over_quarter"
    /\ args' = <<code, target_statement>>
    /\ ret' = compare_quarter_over_quarter(financial_statements, code, target_statement)
    /\ UNCHANGED <<financial_statements, earnings_scores, weights, tasks,
                   ai_analysis_results>>

ChangeRate(current, previous) ==
    /\ call' = "_change_rate"
    /\ args' = <<current, previous>>
    /\ ret' = _change_rate(current, previous)
    /\ UNCHANGED <<financial_statements, earnings_scores, weights, tasks,
                   ai_analysis_results>>

DetectSignals(code, target_statement) ==
    /\ call' = "detect_signals"
    /\ args' = <<code, target_statement>>
    /\ ret' = detect_signals(financial_statements, code, target_statement)
    /\ UNCHANGED <<financial_statements, earnings_scores, weights, tasks,
                   ai_analysis_results>>

----------------------------------------------------------------------------
(* Operations of ScoringService *)

ScoreSingle(code, target_statement) ==
    /\ call' = "score_single"
    /\ args' = <<code, target_statement>>
    /\ ret' = score_single(financial_statements, weights, code, target_statement)
    /\ UNCHANGED <<financial_statements, earnings_scores, weights, tasks,
                   ai_analysis_results>>

ScoreAndSave(code, disclosed_date, disclosure_number, target_statement) ==
    \E out \in {score_and_save(financial_statements, earnings_scores, weights,
                               code, disclosed_date, disclosure_number,
                               target_statement)} :
        /\ call' = "score_and_save"
        /\ args' = <<code, disclosed_date, disclosure_number, target_statement>>
        /\ ret' = out.ret
        /\ earnings_scores' = out.scores
        /\ UNCHANGED <<financial_statements, weights, ai_analysis_results, tasks>>

ScoreAllForDate(target_date, progress_callback) ==
    \E statements \in Orderings(DisclosedOn(financial_statements,
                                            ParseDateText(target_date))) :
    \E out \in {score_all_for_date(financial_statements, earnings_scores, weights,
                                   target_date, statements, progress_callback)} :
        /\ call' = "score_all_for_date"
        /\ args' = <<target_date, progress_callback, statements>>
        /\ ret' = out.ret
        /\ earnings_scores' = out.scores
        /\ UNCHANGED <<financial_statements, weights, ai_analysis_results, tasks>>

(* score_single step by step: each read of the store is a step, so that    *)
(* a commit of sync_statements_by_date can fall between two reads.         *)

\* the locals of a score_single call; `snapshot` records the table of its
\* first read and `writes` the commits that fell inside the call
NoCall ==
    [pc |-> "idle", code |-> "", target_statement |-> NoStatement,
     snapshot |-> {}, yoy |-> << >>, qoq |-> << >>, signal_yoy |-> << >>,
     writes |-> 0]

\* line 65: yoy = compare_year_over_year(code, target_statement)
ScoreSingleYoy(code, target_statement) ==
    /\ tasks.pc \in {"idle", "done"}
    /\ tasks' = [NoCall EXCEPT
                    !.pc = "qoq",
                    !.code = code,
                    !.target_statement = target_statement,
                    !.snapshot = financial_statements,
                    !.yoy = <<compare_year_over_year(financial_statements, code,
                                                     target_statement)>>]
    /\ UNCHANGED <<financial_statements, earnings_scores, weights, call, args, ret,
                   ai_analysis_results>>

\* line 66: qoq = compare_quarter_over_quarter(code, target_statement)
ScoreSingleQoq ==
    /\ tasks.pc = "qoq"
    /\ tasks' = [tasks EXCEPT
                    !.pc = "signals",
                    !.qoq = <<compare_quarter_over_quarter(
                                 financial_statements, tasks.code,
                                 tasks.target_statement)>>]
    /\ UNCHANGED <<financial_statements, earnings_scores, weights, call, args, ret,
                   ai_analysis_results>>

\* detect_signals reads the statements again when there are a current and a
\* previous statement and the current one has an operating profit
ReadsAgain(yoy) ==
    /\ ~yoy.error
    /\ yoy.current # NoStatement
    /\ yoy.previous # NoStatement
    /\ yoy.current[1].operating_profit # NoNum

\* lines 69-140, once the signals are known
ScoreSingleReturn(signals) ==
    /\ call' = "score_single"
    /\ args' = <<tasks.code, tasks.target_statement>>
    /\ ret' = ScoreOf(weights, tasks.code, tasks.yoy[1], tasks.qoq[1], signals)

\* line 67: detect_signals, up to its own compare_year_over_year
ScoreSingleSignals ==
    /\ tasks.pc = "signals"
    /\ \E yoy \in {compare_year_over_year(financial_statements, tasks.code,
                                          tasks.target_statement)} :
           IF ReadsAgain(yoy)
           THEN /\ tasks' = [tasks EXCEPT !.pc = "record_high",
                                          !.signal_yoy = <<yoy>>]
                /\ UNCHANGED <<call, args, ret>>
           ELSE /\ ScoreSingleReturn(SignalsOf(yoy, << >>))
                /\ tasks' = [tasks EXCEPT !.pc = "done", !.signal_yoy = <<yoy>>]
    /\ UNCHANGED <<financial_statements, earnings_scores, weights, ai_analysis_results>>

\* detect_signals, from its get_statements_for_code to the end of score_single
ScoreSingleRecordHigh ==
    /\ tasks.pc = "record_high"
    /\ ScoreSingleReturn(SignalsOf(tasks.signal_yoy[1],
                                   get_statements_for_code(financial_statements,
                                                           tasks.code)))
    /\ tasks' = [tasks EXCEPT !.pc = "done"]
    /\ UNCHANGED <<financial_statements, earnings_scores, weights, ai_analysis_results>>

(* score_all_for_date step by step, for runs of several ScoringService    *)
(* instances: in score_and_save the query for the existing record and the  *)
(* commit are two steps, each session being a connection of its own.       *)

\* the locals of a run; `existing` is the id of the record found, or 0
NoRun(w) ==
    [pc |-> "idle", weights |-> w, target_date |-> << >>, statements |-> << >>,
     i |-> 0, result |-> << >>, existing |-> 0, results |-> << >>]

\* the statement a run is at
StatementAt(run) == run.statements[run.i]

\* the loop goes to the next statement or, after the last one, sorts and
\* returns
RunAdvanced(run, results) ==
    IF run.i < Len(run.statements)
    THEN [run EXCEPT !.pc = "lookup", !.i = @ + 1, !.result = << >>,
                     !.existing = 0, !.results = results]
    ELSE [run EXCEPT !.pc = "done", !.result = << >>, !.existing = 0,
                     !.results = SortByScore(results)]

\* what the call returns when the run is done
RunReturns(run) ==
    IF run.pc = "done"
    THEN /\ call' = "score_all_for_date"
         /\ args' = <<run.target_date, FALSE, run.statements>>
         /\ ret' = [raised |-> FALSE, results |-> run.results, progress |-> << >>]
    ELSE UNCHANGED <<call, args, ret>>

\* lines 212-222: the statements of the date are read
RunBegins(r, target_date) ==
    /\ tasks[r].pc = "idle"
    /\ \E statements \in Orderings(DisclosedOn(financial_statements,
                                               ParseDateText(target_date))) :
       \E run \in {RunAdvanced([tasks[r] EXCEPT !.target_date = target_date,
                                                !.statements = statements],
                               << >>)} :
           /\ tasks' = [tasks EXCEPT ![r] = run]
           /\ RunReturns(run)
    /\ UNCHANGED <<financial_statements, earnings_scores, weights, ai_analysis_results>>

\* lines 154-164: score_single, then the query for the existing record; an
\* exception of score_single is caught by the loop
RunLooksUp(r) ==
    /\ tasks[r].pc = "lookup"
    /\ \E stmt \in {StatementAt(tasks[r])} :
       \E result \in {score_single(financial_statements, tasks[r].weights,
                                   stmt.code, <<stmt>>)} :
       \E existing \in {ExistingScores(earnings_scores, stmt.code,
                                       DiscOrEmpty(stmt.disclosure_number))} :
       \E run \in {IF result.raised
                   THEN RunAdvanced(tasks[r], tasks[r].results)
                   ELSE [tasks[r] EXCEPT
                            !.pc = "commit",
                            !.result = <<result>>,
                            !.existing = IF existing = {} THEN 0
                                         ELSE FirstRow(existing).id]} :
           /\ tasks' = [tasks EXCEPT ![r] = run]
           /\ RunReturns(run)
    /\ UNCHANGED <<financial_statements, earnings_scores, weights, ai_analysis_results>>

\* lines 180-193 with a record found or not found earlier: UPDATE by id, or
\* INSERT, which the unique key refuses when the key was inserted meanwhile
CommitScore(scores, values, result, existing) ==
    IF existing # 0
    THEN [scores |-> {r \in scores : r.id # existing}
                         \cup {ScoreRow(values, existing)},
          ret |-> result]
    ELSE IF ScoreKeyTaken(scores, values)
    THEN [scores |-> scores, ret |-> Raised(values.code, "IntegrityError")]
    ELSE [scores |-> scores \cup {ScoreRow(values, MaxId(scores) + 1)},
          ret |-> result]

\* lines 180-195 and 235-253: the commit, and the append or the except
RunCommits(r) ==
    /\ tasks[r].pc = "commit"
    /\ \E stmt \in {StatementAt(tasks[r])} :
       \E out \in {CommitScore(earnings_scores,
                               ScoreValues(stmt.code,
                                           ParseDateText(tasks[r].target_date),
                                           DiscOrEmpty(stmt.disclosure_number),
                                           tasks[r].result[1]),
                               tasks[r].result[1], tasks[r].existing)} :
       \E run \in {RunAdvanced(tasks[r],
                               Collected(tasks[r].results, out.ret,
                                         BatchEntry(out.ret, tasks[r].target_date,
                                                    stmt)))} :
           /\ earnings_scores' = out.scores
           /\ tasks' = [tasks EXCEPT ![r] = run]
           /\ RunReturns(run)
    /\ UNCHANGED <<financial_statements, weights, ai_analysis_results>>

----------------------------------------------------------------------------
(* AIAnalyzer (services/ai_analyzer.py)                                     *)
(*                                                                          *)
(* A text (an error message, a response, a summary) is a sequence of words; *)
(* "a in b" is the occurrence of the words of a, in a row, in b.  Waits are *)
(* in tenths of a second.  A missing key of a result dict is NoStr.         *)

ERROR_SUMMARY_PREFIX == "analysis error:"

Lower(word) ==
    CASE word = "RESOURCE_EXHAUSTED" -> "resource_exhausted"
      [] word = "You" -> "you"
      [] word = "Quota" -> "quota"
      [] word = "Too" -> "too"
      [] word = "Many" -> "many"
      [] word = "Requests" -> "requests"
      [] OTHER -> word

LowerText(text) == [i \in 1..Len(text) |-> Lower(text[i])]

Occurs(phrase, text) ==
    \E i \in 0..(Len(text) - Len(phrase)) :
        SubSeq(text, i + 1, i + Len(phrase)) = phrase

AIAnalyzer(max_retries, retry_base_wait, request_interval) ==
    [max_retries |-> Max(0, max_retries),
     retry_base_wait |-> Max(10, retry_base_wait),
     request_interval |-> Max(0, request_interval)]

\* mutant: no error is a quota error
_is_quota_exceeded_error_Never(error) == FALSE

_is_quota_exceeded_error(error) ==
    LET text == LowerText(error)
    IN  \/ Occurs(<<"exceeded", "your", "current", "quota">>, text)
        \/ Occurs(<<"quota">>, text) /\ Occurs(<<"billing">>, text)
        \/ Occurs(<<"insufficient", "quota">>, text)

_is_rate_limit_error(error) ==
    LET text == LowerText(error)
    IN  \/ Occurs(<<"429">>, text)
        \/ Occurs(<<"resource_exhausted">>, text)
        \/ Occurs(<<"rate", "limit">>, text)
        \/ Occurs(<<"too", "many", "requests">>, text)

_build_error_result(message, error_type) ==
    [summary |-> <<ERROR_SUMMARY_PREFIX>> \o message,
     sentiment |-> "neutral",
     is_error |-> TRUE,
     error |-> message,
     error_type |-> error_type]

\* a response text is [valid, summary, sentiment, text]: valid says whether
\* the text holds a JSON object, whose "summary" and "sentiment" are given
_parse_response(response_text) ==
    IF response_text.valid
    THEN [summary |-> response_text.summary,
          sentiment |-> response_text.sentiment]
    ELSE [summary |-> response_text.text, sentiment |-> "neutral"]

Succeeded(parsed) ==
    [summary |-> parsed.summary,
     sentiment |-> parsed.sentiment,
     is_error |-> FALSE,
     error |-> << >>,
     error_type |-> NoStr]

RECURSIVE Pow2(_)
Pow2(n) == IF n = 0 THEN 1 ELSE 2 * Pow2(n - 1)

\* the retry loop of analyze_pdf from one attempt on; api[k] is the outcome
\* of the k-th generate_content call: [raises, error, text]
RECURSIVE GenerateFrom(_, _, _, _)
GenerateFrom(self, api, attempt, wait_calls) ==
    IF attempt > self.max_retries
    THEN [result |-> _build_error_result(<<"analysis failed">>, "api_error"),
          calls |-> attempt, wait_calls |-> wait_calls]
    ELSE LET e == api[attempt + 1]
             Returned(result) ==
                 [result |-> result, calls |-> attempt + 1,
                  wait_calls |-> wait_calls]
         IN  IF ~e.raises
             THEN IF e.text.text = << >>
                  THEN Returned(_build_error_result(<<"empty response">>,
                                                    "empty_response"))
                  ELSE Returned(Succeeded(_parse_response(e.text)))
             ELSE IF _is_quota_exceeded_error(e.error)
             THEN Returned(_build_error_result(<<"quota exceeded">>,
                                               "quota_exceeded"))
             ELSE IF _is_rate_limit_error(e.error) /\ attempt < self.max_retries
             THEN GenerateFrom(self, api, attempt + 1,
                               Append(wait_calls,
                                      self.retry_base_wait * Pow2(attempt)))
             ELSE IF _is_rate_limit_error(e.error)
             THEN Returned(_build_error_result(<<"rate limited">>,
                                               "rate_limited"))
             ELSE Returned(_build_error_result(e.error, "api_error"))

NoCalls(result) == [result |-> result, calls |-> 0, wait_calls |-> << >>]

\* pdf is the state of the file at pdf_path; client says whether the client
\* can be built
analyze_pdf(self, pdf, client, api) ==
    IF pdf = "missing"
    THEN NoCalls(_build_error_result(<<"file not found">>, "file_not_found"))
    ELSE IF pdf = "unreadable"
    THEN NoCalls(_build_error_result(<<"read error">>, "file_read_error"))
    ELSE IF pdf = "empty"
    THEN NoCalls(_build_error_result(<<"empty file">>, "empty_file"))
    ELSE IF ~client
    THEN NoCalls(_build_error_result(<<"init error">>, "client_init_error"))
    ELSE GenerateFrom(self, api, 0, << >>)

analyze_earnings(self, text, client, api) ==
    IF text = << >>
    THEN NoCalls(Succeeded([summary |-> <<"no text">>, sentiment |-> "neutral"]))
    ELSE IF ~client
    THEN NoCalls(_build_error_result(<<"init error">>, "client_init_error"))
    ELSE LET e == api[1]
         IN  [result |-> IF e.raises
                         THEN _build_error_result(e.error, "api_error")
                         ELSE Succeeded(_parse_response(e.text)),
              calls |-> 1,
              wait_calls |-> << >>]

AnalyzeEarnings(self, text, client, api) ==
    /\ call' = "analyze_earnings"
    /\ args' = <<self, text, client, api>>
    /\ ret' = analyze_earnings(self, text, client, api)
    /\ UNCHANGED <<financial_statements, earnings_scores, weights, tasks,
                   ai_analysis_results>>

AnalyzePdf(self, pdf, client, api) ==
    /\ call' = "analyze_pdf"
    /\ args' = <<self, pdf, client, api>>
    /\ ret' = analyze_pdf(self, pdf, client, api)
    /\ UNCHANGED <<financial_statements, earnings_scores, weights, tasks,
                   ai_analysis_results>>

\* the state of the file at pdf_path (the file system is not written by the
\* program under study: a path names its file's state)
PdfFile(pdf_path) ==
    CASE pdf_path = "missing.pdf" -> "missing"
      [] pdf_path = "empty.pdf" -> "empty"
      [] OTHER -> "ok"

\* session.query(AIAnalysisResult).filter_by(code, disclosure_number)
ExistingAnalyses(rows, code, disclosure_number) ==
    {r \in rows : r.code = code /\ r.disclosure_number = disclosure_number}

\* existing and existing.summary and not summary.startswith(prefix)
AlreadyAnalyzed(existing) ==
    /\ existing # {}
    /\ FirstRow(existing).summary # << >>
    /\ FirstRow(existing).summary[1] # ERROR_SUMMARY_PREFIX

\* the columns analyze_and_save writes (the lists, the model name and the
\* time of the analysis are left out)
AnalysisRow(id, code, dt, disclosure_number, result) ==
    [id |-> id,
     code |-> code,
     disclosed_date |-> dt,
     disclosure_number |-> disclosure_number,
     summary |-> result.summary,
     sentiment |-> result.sentiment]

\* mutant: an error result is saved like an analysis
analyze_and_save_SavesErrors(rows, self, pdf_path, code, disclosed_date, disclosure_number, api) ==
    LET existing == ExistingAnalyses(rows, code, disclosure_number)
        analysis == analyze_pdf(self, PdfFile(pdf_path), TRUE, api)
        dt == ParseDateText(disclosed_date)
        Returns(result, written) ==
            [rows |-> written, raised |-> FALSE, result |-> result,
             calls |-> analysis.calls, wait_calls |-> analysis.wait_calls]
    IN  IF AlreadyAnalyzed(existing)
        THEN [rows |-> rows, raised |-> FALSE,
              result |-> Succeeded(FirstRow(existing)),
              calls |-> 0, wait_calls |-> << >>]
        ELSE IF dt = NoDate
        THEN [rows |-> rows, raised |-> TRUE,
              result |-> [exception |-> "ValueError"],
              calls |-> analysis.calls, wait_calls |-> analysis.wait_calls]
        ELSE IF existing # {}
        THEN Returns(analysis.result,
                     (rows \ {FirstRow(existing)})
                         \cup {AnalysisRow(FirstRow(existing).id, code, dt,
                                           disclosure_number, analysis.result)})
        ELSE Returns(analysis.result,
                     rows \cup {AnalysisRow(MaxId(rows) + 1, code, dt,
                                            disclosure_number, analysis.result)})

\* returns [rows, raised, result, calls, wait_calls]: the table after the
\* call, whether the call raised, the dict returned, the generate_content
\* calls made and the waits slept
analyze_and_save(rows, self, pdf_path, code, disclosed_date, disclosure_number, api) ==
    LET existing == ExistingAnalyses(rows, code, disclosure_number)
        analysis == analyze_pdf(self, PdfFile(pdf_path), TRUE, api)
        dt == ParseDateText(disclosed_date)
        Returns(result, written) ==
            [rows |-> written, raised |-> FALSE, result |-> result,
             calls |-> analysis.calls, wait_calls |-> analysis.wait_calls]
    IN  IF AlreadyAnalyzed(existing)
        THEN [rows |-> rows, raised |-> FALSE,
              result |-> Succeeded(FirstRow(existing)),
              calls |-> 0, wait_calls |-> << >>]
        ELSE IF analysis.result.is_error
        THEN Returns(analysis.result, rows)
        ELSE IF dt = NoDate
        THEN [rows |-> rows, raised |-> TRUE,
              result |-> [exception |-> "ValueError"],
              calls |-> analysis.calls, wait_calls |-> analysis.wait_calls]
        ELSE IF existing # {}
        THEN Returns(analysis.result,
                     (rows \ {FirstRow(existing)})
                         \cup {AnalysisRow(FirstRow(existing).id, code, dt,
                                           disclosure_number, analysis.result)})
        ELSE Returns(analysis.result,
                     rows \cup {AnalysisRow(MaxId(rows) + 1, code, dt,
                                            disclosure_number, analysis.result)})

AnalyzeAndSave(self, pdf_path, code, disclosed_date, disclosure_number, api) ==
    \E out \in {analyze_and_save(ai_analysis_results, self, pdf_path, code,
                                 disclosed_date, disclosure_number, api)} :
        /\ ai_analysis_results' = out.rows
        /\ call' = "analyze_and_save"
        /\ args' = <<self, pdf_path, code, disclosed_date, disclosure_number,
                     api>>
        /\ ret' = [raised |-> out.raised, result |-> out.result,
                   calls |-> out.calls, wait_calls |-> out.wait_calls]
        /\ UNCHANGED <<financial_statements, earnings_scores, weights, tasks>>

\* the entry batch_analyze appends for an item that is skipped
SkippedEntry(code) ==
    [code |-> code, success |-> FALSE, error |-> <<"skipped">>,
     error_type |-> "quota_exceeded"]

\* the entry batch_analyze appends after analyze_and_save
AnalyzedEntry(code, out) ==
    IF out.raised
    THEN [code |-> code, success |-> FALSE, error |-> <<out.result.exception>>]
    ELSE IF out.result.is_error
    THEN [code |-> code, success |-> FALSE, error |-> out.result.error,
          error_type |-> out.result.error_type]
    ELSE [summary |-> out.result.summary, sentiment |-> out.result.sentiment,
          is_error |-> FALSE, code |-> code, success |-> TRUE]

\* mutant: the quota error of an item is not remembered
QuotaExhausted_Never(quota_exhausted, out) == quota_exhausted

\* if result.get("error_type") == "quota_exceeded": quota_exhausted = True
QuotaExhausted(quota_exhausted, out) ==
    \/ quota_exhausted
    \/ ~out.raised /\ out.result.is_error
                   /\ out.result.error_type = "quota_exceeded"

\* the loop of batch_analyze from item i on; done is what the loop has done
\* so far: [results, progress, invoked, sleeps]
RECURSIVE BatchAnalyzeLoop(_, _, _, _, _, _, _, _)
BatchAnalyzeLoop(rows, self, items, apis, progress_callback, i, quota_exhausted, done) ==
    IF i > Len(items) THEN [rows |-> rows, ret |-> done]
    ELSE
    LET total == Len(items)
        code == items[i].code
        reported == IF progress_callback THEN Append(done.progress, <<i, total>>)
                    ELSE done.progress
    IN  IF quota_exhausted
        THEN BatchAnalyzeLoop(rows, self, items, apis, progress_callback, i + 1,
                              quota_exhausted,
                              [done EXCEPT
                                  !.results = Append(@, SkippedEntry(code)),
                                  !.progress = reported])
        ELSE
        LET out == analyze_and_save(rows, self, items[i].pdf_path, code,
                                    items[i].disclosed_date,
                                    items[i].disclosure_number, apis[i])
        IN  BatchAnalyzeLoop(out.rows, self, items, apis, progress_callback,
                             i + 1, QuotaExhausted(quota_exhausted, out),
                             [results |-> Append(done.results,
                                                 AnalyzedEntry(code, out)),
                              progress |-> reported,
                              invoked |-> Append(done.invoked,
                                                 [item |-> i,
                                                  raised |-> out.raised,
                                                  result |-> out.result]),
                              sleeps |-> done.sleeps \o out.wait_calls
                                  \o (IF self.request_interval > 0 /\ i < total
                                      THEN <<self.request_interval>>
                                      ELSE << >>)])

\* apis[i] is the behaviour of the Gemini service during item i
batch_analyze(rows, self, items, progress_callback, apis) ==
    BatchAnalyzeLoop(rows, self, items, apis, progress_callback, 1, FALSE,
                     [results |-> << >>, progress |-> << >>,
                      invoked |-> << >>, sleeps |-> << >>])

BatchAnalyze(self, items, progress_callback, apis) ==
    \E out \in {batch_analyze(ai_analysis_results, self, items,
                              progress_callback, apis)} :
        /\ ai_analysis_results' = out.rows
        /\ call' = "batch_analyze"
        /\ args' = <<self, items, progress_callback, apis>>
        /\ ret' = out.ret
        /\ UNCHANGED <<financial_statements, earnings_scores, weights, tasks>>

----------------------------------------------------------------------------
(* Bounds and input sets *)

\* rows kept in financial_statements
MaxStatements == 2

Codes == {"7974"}

DEFAULT_SCORING_WEIGHTS ==
    [yoy_sales |-> 15, yoy_operating_income |-> 25, yoy_profit |-> 20,
     qoq_acceleration |-> 15, revision_flag |-> 15, turnaround_flag |-> 10]

FS == <<"2Q", "FinancialStatements", "Consolidated">>
EarnForecastRevision == <<"EarnForecastRevision">>

ResolveItems ==
    [Code : Codes,
     DiscDate : {20251114},
     DiscNo : {NoDisc, <<9>>, <<1, 0>>},
     DocType : {<< >>, EarnForecastRevision, FS},
     CurPerType : {NoStr, "4Q", "1Q", "FY"},
     CurPerEn : {NoDate},
     CurFYEn : {NoDate, 20250331, 20260331},
     Sales : {NoNum}, OP : {NoNum}, OdP : {NoNum}, NP : {NoNum}]

\* rows kept in financial_statements when comparisons are made
MaxHistory == 3

\* the filings of the comparison runs: two earnings filings and a forecast
\* revision with the greatest disclosure number
Filings == {<<FS, <<8>>>>, <<FS, <<9>>>>, <<EarnForecastRevision, <<9, 9>>>>}

\* the reporting periods of the comparison runs, as (period type, fiscal year
\* end): three period types in fiscal years ending 2025-03, 2025-12 (a
\* changed fiscal year end) and 2026-03, an unranked period type in two
\* years, a missing period type and a missing fiscal year end
ReportingPeriods ==
    ({"1Q", "2Q", "FY"} \X {20250331, 20251231, 20260331})
        \cup {<<"4Q", 20250331>>, <<"4Q", 20260331>>,
              <<NoStr, 20260331>>, <<"1Q", NoDate>>}

CompareItems ==
    {[Code |-> c, DiscDate |-> 20251114,
      DiscNo |-> f[2], DocType |-> f[1],
      CurPerType |-> p[1], CurPerEn |-> NoDate, CurFYEn |-> p[2],
      Sales |-> NoNum, OP |-> NoNum, OdP |-> NoNum, NP |-> NoNum] :
        c \in Codes, f \in Filings, p \in ReportingPeriods}

\* the statements a caller can pass as target_statement: none, or a row read
\* from the table
Targets(code) ==
    {NoStatement} \cup {<<r>> : r \in {x \in financial_statements : x.code = code}}

MaxSmall == 5

Amounts ==
    {NoNum} \cup {Some(v) : v \in (-MaxSmall..MaxSmall) \cup {-100, 90, 100, 110}}

\* the periods of the scoring runs, as (period type, fiscal year end,
\* disclosure number): the second quarter of the year before, the first and
\* the second quarter of the year
ScoreCells ==
    <<<<"2Q", 20250331, <<1>>>>, <<"1Q", 20260331, <<2>>>>, <<"2Q", 20260331, <<3>>>>>>

\* the figures (sales, operating profit, ordinary profit, profit) of the
\* scoring runs
FactProfiles ==
    <<<<Some(100), Some(20), Some(20), Some(10)>>,
      <<Some(110), Some(24), Some(22), Some(-5)>>,
      <<Some(95), Some(18), NoNum, Some(-1500)>>,
      <<NoNum, NoNum, NoNum, NoNum>>,
      <<Some(0), Some(0), Some(0), Some(0)>>>>

ScoreItem(cell, facts) ==
    [Code |-> "7974", DiscDate |-> 20251114,
     DiscNo |-> cell[3], DocType |-> FS,
     CurPerType |-> cell[1], CurPerEn |-> NoDate, CurFYEn |-> cell[2],
     Sales |-> facts[1], OP |-> facts[2], OdP |-> facts[3], NP |-> facts[4]]

ScoreItems ==
    {ScoreItem(ScoreCells[c], FactProfiles[f]) :
        c \in DOMAIN ScoreCells, f \in DOMAIN FactProfiles}

\* weight mappings of the scoring runs, in hundredths: the default, all
\* zero, a sum of 1.6 and a sum of 6
WeightMap(a, b, c, d, e, f) ==
    [yoy_sales |-> a, yoy_operating_income |-> b, yoy_profit |-> c,
     qoq_acceleration |-> d, revision_flag |-> e, turnaround_flag |-> f]

WeightProfiles ==
    {DEFAULT_SCORING_WEIGHTS,
     WeightMap(0, 0, 0, 0, 0, 0),
     WeightMap(40, 40, 20, 20, 20, 20),
     WeightMap(100, 100, 100, 100, 100, 100)}

\* the data of one synchronisation: for each period, no statement or one
\* with one of the figures
BatchOf(choice) ==
    LET cells == SelectSeq(<<1, 2, 3>>, LAMBDA c : choice[c] # 0)
    IN  [i \in 1..Len(cells) |->
            ScoreItem(ScoreCells[cells[i]], FactProfiles[choice[cells[i]]])]

\* the number of figures the synchronisation before the saving runs draws from
MaxFacts == 3

SaveBatches == {BatchOf(choice) : choice \in [1..3 -> 0..MaxFacts]}

\* statements that tie in the ORDER BY of the store read: no disclosure
\* number, one fiscal year end, period types outside the ranked four
TieItems ==
    [Code : Codes,
     DiscDate : {20251114},
     DiscNo : {NoDisc, <<9>>},
     DocType : {FS},
     CurPerType : {NoStr, "4Q"},
     CurPerEn : {NoDate},
     CurFYEn : {20260331},
     Sales : {Some(100), Some(110)}, OP : {NoNum}, OdP : {NoNum}, NP : {NoNum}]

\* the data of one synchronisation: one or two statements
TieData == {<<a>> : a \in TieItems} \cup {<<a, b>> : a, b \in TieItems}

\* commits of sync_statements_by_date that fall inside one score_single
MaxWrites == 1

\* the statements of a company a writer synchronises while it is scored:
\* each of the three periods with the first or the second figures
RaceItems ==
    {ScoreItem(ScoreCells[c], FactProfiles[f]) : c \in DOMAIN ScoreCells, f \in {1, 2}}

\* the statements of the batch runs, two companies: (code, period type,
\* fiscal year end, disclosure number, disclosed date, how many of the
\* figures the statement draws from)
BatchCells ==
    <<<<"6758", "2Q", 20250331, <<4>>, 20241114, 1>>,
      <<"6758", "2Q", 20260331, <<6>>, 20251114, 3>>,
      <<"7974", "2Q", 20250331, <<1>>, 20241114, 2>>,
      <<"7974", "2Q", 20260331, <<3>>, 20251114, 3>>,
      <<"7974", "1Q", 20260331, <<2>>, 20251114, 1>>>>

BatchItem(cell, facts) ==
    [Code |-> cell[1], DiscDate |-> cell[5],
     DiscNo |-> cell[4], DocType |-> FS,
     CurPerType |-> cell[2], CurPerEn |-> NoDate, CurFYEn |-> cell[3],
     Sales |-> facts[1], OP |-> facts[2], OdP |-> facts[3], NP |-> facts[4]]

BatchDataOf(choice) ==
    LET cells == SelectSeq(<<1, 2, 3, 4, 5>>, LAMBDA c : choice[c] # 0)
    IN  [i \in 1..Len(cells) |->
            BatchItem(BatchCells[cells[i]], FactProfiles[choice[cells[i]]])]

BatchData ==
    {BatchDataOf(choice) :
        choice \in {ch \in [DOMAIN BatchCells -> 0..Len(FactProfiles)] :
                       \A c \in DOMAIN BatchCells : ch[c] <= BatchCells[c][6]}}

\* the date of the statements and a date without statements
BatchDates == {IsoText(20251114), IsoText(20251115)}

\* the runs that score a date at the same time
Runs == {1, 2}

\* the weights of each run
RunWeights ==
    [r \in Runs |->
        IF r = 1 THEN DEFAULT_SCORING_WEIGHTS ELSE WeightMap(40, 40, 20, 20, 20, 20)]

\* the statements synchronised before the runs: one, two or three statements
\* of the date, one of the three failing in score_single
RunData ==
    {BatchDataOf(choice) :
        choice \in {<<0, 1, 0, 0, 0>>, <<1, 2, 1, 2, 0>>, <<1, 3, 1, 2, 1>>}}

----------------------------------------------------------------------------
(* Specification of the resolver: statements are synchronised one item at  *)
(* a time and the canonical sequence is read.                              *)

Init ==
    /\ financial_statements = {}
    /\ earnings_scores = {}
    /\ weights = DEFAULT_SCORING_WEIGHTS
    /\ call = "init"
    /\ args = << >>
    /\ ret = << >>
    /\ tasks = << >>
    /\ ai_analysis_results = {}

SyncOne ==
    \E item \in ResolveItems :
        /\ Cardinality(financial_statements) < MaxStatements
        /\ sync_statements_by_date(<<item>>)
        /\ UNCHANGED tasks

ReadCanonical == \E code \in Codes : GetStatementsForCode(code)

Next == SyncOne \/ ReadCanonical

Spec == Init /\ [][Next]_vars

(* Specification of the comparisons: filings are synchronised and the      *)
(* year-over-year and quarter-over-quarter comparisons are computed.       *)

SyncFiling ==
    \E item \in CompareItems :
        /\ Cardinality(financial_statements) < MaxHistory
        /\ sync_statements_by_date(<<item>>)
        /\ UNCHANGED tasks

YearOverYear ==
    \E code \in Codes : \E t \in Targets(code) : CompareYearOverYear(code, t)

QuarterOverQuarter ==
    \E code \in Codes : \E t \in Targets(code) : CompareQuarterOverQuarter(code, t)

NextCompare == SyncFiling \/ YearOverYear \/ QuarterOverQuarter

SpecCompare == Init /\ [][NextCompare]_vars

(* Specification of the change rate: it is applied to every pair of        *)
(* optional amounts.                                                       *)

NextRate == \E c, p \in Amounts : ChangeRate(c, p)

SpecRate == Init /\ [][NextRate]_vars

(* Specification of the scorer: a service is built with a weight mapping,  *)
(* statements are synchronised and single statements are scored.           *)

InitScore ==
    /\ financial_statements = {}
    /\ earnings_scores = {}
    /\ weights \in WeightProfiles
    /\ call = "init"
    /\ args = << >>
    /\ ret = << >>
    /\ tasks = << >>
    /\ ai_analysis_results = {}

SyncScored ==
    \E item \in ScoreItems :
        sync_statements_by_date(<<item>>) /\ UNCHANGED tasks

Score == \E code \in Codes : \E t \in Targets(code) : ScoreSingle(code, t)

NextScore == SyncScored \/ Score

SpecScore == InitScore /\ [][NextScore]_vars

(* Specification of the score store: after one synchronisation, the        *)
(* statements are scored and saved again and again.                        *)

InitSave ==
    /\ \E data \in SaveBatches : financial_statements = SyncResult({}, data).table
    /\ earnings_scores = {}
    /\ weights = DEFAULT_SCORING_WEIGHTS
    /\ call = "init"
    /\ args = << >>
    /\ ret = << >>
    /\ tasks = << >>
    /\ ai_analysis_results = {}

\* score_all_for_date passes each statement read with its code, the date
\* and `disclosure_number or ""`
SaveStatement ==
    \E stmt \in financial_statements :
        ScoreAndSave(stmt.code, IsoText(stmt.disclosed_date),
                     DiscOrEmpty(stmt.disclosure_number), <<stmt>>)

\* score_and_save(code, disclosed_date) with the defaults, the date with or
\* without hyphens
SaveLatest ==
    \E code \in Codes : \E text \in {IsoText(20251114), Digits(20251114, 8)} :
        ScoreAndSave(code, text, << >>, NoStatement)

NextSave == SaveStatement \/ SaveLatest

SpecSave == InitSave /\ [][NextSave]_vars

(* Specification of the store read: one or two statements are            *)
(* synchronised at a time and the canonical sequence is read.              *)

\* the ORDER BY columns alone
SqlKeyBefore(r, s) == SqlBefore([r EXCEPT !.id = 0], [s EXCEPT !.id = 0])

\* the orders in which the query of get_statements_for_code can return the
\* rows of a company: ascending in the ORDER BY columns, rows equal on them
\* in either order
QueryOrders(table, code) ==
    {f \in Orderings({r \in table : r.code = code}) :
        \A i, j \in DOMAIN f : i < j => ~SqlKeyBefore(f[j], f[i])}

SyncData ==
    \E data \in TieData :
        /\ Cardinality(financial_statements) + Len(data) <= MaxStatements
        /\ sync_statements_by_date(data)
        /\ UNCHANGED tasks

NextOrder == SyncData \/ ReadCanonical

SpecOrder == Init /\ [][NextOrder]_vars

(* Specification of the batch: the statements of two companies have been   *)
(* synchronised and the statements of a date are scored, with or without   *)
(* a progress callback.                                                    *)

InitBatch ==
    /\ \E data \in BatchData : financial_statements = SyncResult({}, data).table
    /\ earnings_scores = {}
    /\ weights = DEFAULT_SCORING_WEIGHTS
    /\ call = "init"
    /\ args = << >>
    /\ ret = << >>
    /\ tasks = << >>
    /\ ai_analysis_results = {}

NextBatch ==
    \E target_date \in BatchDates : \E progress_callback \in BOOLEAN :
        ScoreAllForDate(target_date, progress_callback)

SpecBatch == InitBatch /\ [][NextBatch]_vars

(* Specification of a scorer and a writer: score_single runs read by read  *)
(* while sync_statements_by_date commits statements of the same company.   *)

InitRace ==
    /\ financial_statements = {}
    /\ earnings_scores = {}
    /\ weights = DEFAULT_SCORING_WEIGHTS
    /\ call = "init"
    /\ args = << >>
    /\ ret = << >>
    /\ tasks = NoCall
    /\ ai_analysis_results = {}

\* the writer; a commit outside a call ends the record of the last call
Writer ==
    \E item \in RaceItems :
        /\ tasks.pc \in {"idle", "done"} \/ tasks.writes < MaxWrites
        /\ sync_statements_by_date(<<item>>)
        /\ tasks' = IF tasks.pc \in {"idle", "done"} THEN NoCall
                    ELSE [tasks EXCEPT !.writes = @ + 1]

ScorerBegins ==
    \E code \in Codes : \E t \in Targets(code) : ScoreSingleYoy(code, t)

NextRace ==
    \/ Writer
    \/ ScorerBegins
    \/ ScoreSingleQoq
    \/ ScoreSingleSignals
    \/ ScoreSingleRecordHigh

SpecRace == InitRace /\ [][NextRace]_vars

(* Specification of concurrent batches: two ScoringService instances with  *)
(* weights of their own score the statements of one date at the same time. *)

InitRuns ==
    /\ \E data \in RunData : financial_statements = SyncResult({}, data).table
    /\ earnings_scores = {}
    /\ weights = DEFAULT_SCORING_WEIGHTS
    /\ call = "init"
    /\ args = << >>
    /\ ret = << >>
    /\ tasks = [r \in Runs |-> NoRun(RunWeights[r])]
    /\ ai_analysis_results = {}

NextRuns ==
    \E r \in Runs :
        \/ RunBegins(r, IsoText(20251114))
        \/ RunLooksUp(r)
        \/ RunCommits(r)

SpecRuns == InitRuns /\ [][NextRuns]_vars

(* Specification of the analyzer: analyze_earnings and analyze_pdf are      *)
(* called against a Gemini service that fails a number of times with one    *)
(* error and then answers or fails for good.                                *)

\* retries an analyzer may be configured with
MaxRetries == 2

RateLimitError == <<"429", "rate", "limit", "exceeded">>
QuotaError ==
    <<"429", "You", "exceeded", "your", "current", "quota", "billing">>
ResourceExhausted == <<"RESOURCE_EXHAUSTED">>
Timeout == <<"timeout">>

Raises(error) == [error |-> error, text |-> << >>, raises |-> TRUE]
Responds(text) == [error |-> << >>, text |-> text, raises |-> FALSE]

OkText ==
    [text |-> <<"{", "ok", "}">>, summary |-> <<"ok">>,
     sentiment |-> "neutral", valid |-> TRUE]
PlainText ==
    [text |-> <<"plain">>, summary |-> << >>, sentiment |-> "",
     valid |-> FALSE]
EmptyText ==
    [text |-> << >>, summary |-> << >>, sentiment |-> "", valid |-> FALSE]

\* n calls raising error, then outcome, then answers up to MaxRetries + 1 calls
ApiScript(error, n, outcome) ==
    [k \in 1..(MaxRetries + 1) |->
        IF k <= n THEN Raises(error)
        ELSE IF k = n + 1 THEN outcome
        ELSE Responds(OkText)]

ApiScripts ==
    {ApiScript(error, n, outcome) :
        error \in {RateLimitError, QuotaError, ResourceExhausted, Timeout},
        n \in 0..MaxRetries,
        outcome \in {Responds(OkText), Responds(PlainText),
                     Responds(EmptyText), Raises(Timeout)}}

Analyzers ==
    {AIAnalyzer(max_retries, retry_base_wait, 0) :
        max_retries \in (-1)..MaxRetries, retry_base_wait \in {5, 15}}

InitAnalyze ==
    /\ financial_statements = {}
    /\ earnings_scores = {}
    /\ weights = DEFAULT_SCORING_WEIGHTS
    /\ call = "init"
    /\ args = << >>
    /\ ret = << >>
    /\ tasks = << >>
    /\ ai_analysis_results = {}

NextAnalyze ==
    \E self \in Analyzers :
        \/ \E api \in ApiScripts :
               \/ AnalyzeEarnings(self, <<"text">>, TRUE, api)
               \/ AnalyzePdf(self, "ok", TRUE, api)
        \/ \E client \in BOOLEAN :
               \/ AnalyzeEarnings(self, << >>, client,
                                  ApiScript(Timeout, 0, Responds(OkText)))
               \/ AnalyzeEarnings(self, <<"text">>, client,
                                  ApiScript(Timeout, 0, Responds(OkText)))
        \/ \E pdf \in {"missing", "unreadable", "empty", "ok"} :
               AnalyzePdf(self, pdf, FALSE,
                          ApiScript(Timeout, 0, Responds(OkText)))

SpecAnalyze == InitAnalyze /\ [][NextAnalyze]_vars

(* Specification of the analysis batch: batch_analyze is called with up to  *)
(* MaxItems items, each with the behaviour of the Gemini service during it. *)

\* items of a batch
MaxItems == 3

AnalysisItem(pdf_path, code, disclosed_date) ==
    [disclosure_number |-> << >>, code |-> code,
     disclosed_date |-> disclosed_date, pdf_path |-> pdf_path]

ItemA == AnalysisItem("a.pdf", "1111", IsoText(20260213))
ItemB == AnalysisItem("b.pdf", "2222", IsoText(20260213))
ItemUndated == AnalysisItem("a.pdf", "1111", << >>)

\* an item and what the service does while it is analyzed
AnalysisCases ==
    {<<ItemA, ApiScript(Timeout, 0, Responds(OkText))>>,
     <<ItemB, ApiScript(Timeout, 0, Responds(OkText))>>,
     <<ItemB, ApiScript(QuotaError, 1, Responds(OkText))>>,
     <<ItemB, ApiScript(RateLimitError, 2, Responds(OkText))>>,
     <<ItemUndated, ApiScript(Timeout, 0, Responds(OkText))>>}

AnalysisBatches ==
    UNION {[1..n -> AnalysisCases] : n \in 1..MaxItems}

\* the analyzer and the callback of the test, and those of the app
BatchCallers ==
    {<<AIAnalyzer(1, 15, 0), FALSE>>, <<AIAnalyzer(1, 50, 50), TRUE>>}

NextBatchAnalyze ==
    \E caller \in BatchCallers, batch \in AnalysisBatches :
        BatchAnalyze(caller[1], [i \in DOMAIN batch |-> batch[i][1]], caller[2],
                     [i \in DOMAIN batch |-> batch[i][2]])

SpecBatchAnalyze == InitAnalyze /\ [][NextBatchAnalyze]_vars

(* Specification of the saved analysis: analyze_and_save is called for the *)
(* disclosures of two companies, with a file that is there or missing and   *)
(* a Gemini service that answers, answers with an empty summary or fails.   *)

BlankText ==
    [text |-> <<"{", "}">>, summary |-> << >>, sentiment |-> "neutral",
     valid |-> TRUE]

SaveScripts ==
    {ApiScript(Timeout, 0, Responds(OkText)),
     ApiScript(Timeout, 0, Responds(BlankText)),
     ApiScript(Timeout, 0, Responds(PlainText)),
     ApiScript(Timeout, 0, Responds(EmptyText)),
     ApiScript(QuotaError, 1, Responds(OkText)),
     ApiScript(RateLimitError, 1, Responds(OkText)),
     ApiScript(RateLimitError, 1, Raises(Timeout)),
     ApiScript(RateLimitError, MaxRetries, Responds(OkText))}

NextAnalyzeAndSave ==
    \E pdf_path \in {"a.pdf", "missing.pdf"}, code \in {"1111", "2222"} :
        \E disclosed_date \in {IsoText(20260213), << >>}, api \in SaveScripts :
            AnalyzeAndSave(AIAnalyzer(1, 15, 0), pdf_path, code, disclosed_date,
                           <<1>>, api)

SpecAnalyzeAndSave == InitAnalyze /\ [][NextAnalyzeAndSave]_vars

(* Specification of the retries: analyze_pdf is called against a Gemini     *)
(* service whose generate_content calls end in every sequence of outcomes.  *)

ApiOutcomes ==
    {Raises(RateLimitError), Raises(QuotaError), Raises(Timeout),
     Responds(OkText), Responds(EmptyText)}

OutcomeSequences == [1..(MaxRetries + 1) -> ApiOutcomes]

RetryAnalyzers ==
    {AIAnalyzer(max_retries, 15, 0) : max_retries \in (-1)..MaxRetries}
        \cup {AIAnalyzer(1, 5, 0)}

NextRetries ==
    \E self \in RetryAnalyzers, api \in OutcomeSequences :
        AnalyzePdf(self, "ok", TRUE, api)

SpecRetries == InitAnalyze /\ [][NextRetries]_vars

(* Specification of the matches: earnings statements of a company that     *)
(* moved its fiscal year end from March to December are synchronised and   *)
(* compared.                                                               *)

\* first and second quarters of the fiscal years ending 2025-03, 2025-12
\* (the shortened year) and 2026-12, filed under three disclosure numbers
MatchItems ==
    {[Code |-> c, DiscDate |-> 20251114,
      DiscNo |-> d, DocType |-> FS,
      CurPerType |-> p, CurPerEn |-> NoDate, CurFYEn |-> y,
      Sales |-> NoNum, OP |-> NoNum, OdP |-> NoNum, NP |-> NoNum] :
        c \in Codes, d \in {<<7>>, <<8>>, <<9>>}, p \in {"1Q", "2Q"},
        y \in {20250331, 20251231, 20261231}}

SyncPeriod ==
    \E item \in MatchItems :
        /\ Cardinality(financial_statements) < MaxHistory
        /\ sync_statements_by_date(<<item>>)
        /\ UNCHANGED tasks

NextMatch == SyncPeriod \/ YearOverYear \/ QuarterOverQuarter

SpecMatch == Init /\ [][NextMatch]_vars

(* Specification of the signals: statements of one period type in three    *)
(* fiscal years and of another period type are synchronised and            *)
(* detect_signals is called for the latest statement or for a stored one.  *)

\* the periods of the signal runs, as (period type, fiscal year end,
\* disclosure number)
SignalCells ==
    <<<<"2Q", 20240331, <<1>>>>, <<"2Q", 20250331, <<2>>>>,
      <<"2Q", 20260331, <<3>>>>, <<"1Q", 20260331, <<4>>>>>>

\* the figures (sales, operating profit, ordinary profit, profit) of the
\* signal runs: against the first, the second moves by +30, +30, -30 and
\* -150 per cent, the third by +29 and +50 with a profit of 0, and the
\* fifth by -30 in sales and +100 in profit; against the second, the fifth
\* has less sales and a profit after a loss
SignalProfiles ==
    <<<<Some(100), Some(20), Some(20), Some(10)>>,
      <<Some(130), Some(26), Some(14), Some(-5)>>,
      <<Some(129), Some(30), NoNum, Some(0)>>,
      <<NoNum, NoNum, Some(20), NoNum>>,
      <<Some(70), Some(20), Some(20), Some(20)>>>>

SignalItems ==
    {ScoreItem(SignalCells[c], SignalProfiles[f]) :
        c \in DOMAIN SignalCells, f \in DOMAIN SignalProfiles}

SyncSignal ==
    \E item \in SignalItems :
        /\ Cardinality(financial_statements) < MaxHistory
        /\ sync_statements_by_date(<<item>>)
        /\ UNCHANGED tasks

Detect == \E code \in Codes : \E t \in Targets(code) : DetectSignals(code, t)

NextSignals == SyncSignal \/ Detect

SpecSignals == Init /\ [][NextSignals]_vars

(* Specification of the flags: the statements of the signal runs are       *)
(* scored by a service whose weights lie on one component, which makes     *)
(* the sub-score of the component the total score.                         *)

FlagWeights ==
    {WeightMap(100, 0, 0, 0, 0, 0),
     WeightMap(0, 0, 0, 100, 0, 0),
     WeightMap(0, 0, 0, 0, 100, 0)}

InitFlags ==
    /\ financial_statements = {}
    /\ earnings_scores = {}
    /\ weights \in FlagWeights
    /\ call = "init"
    /\ args = << >>
    /\ ret = << >>
    /\ tasks = << >>
    /\ ai_analysis_results = {}

NextFlags == SyncSignal \/ Score

SpecFlags == InitFlags /\ [][NextFlags]_vars

(* Specification of a date: on one date a company files its earnings       *)
(* statement, a correction of it and a forecast revision; the statements   *)
(* of the date are scored.                                                 *)

DivForecastRevision == <<"DivForecastRevision">>

\* a filing of the second quarter: (fiscal year end, disclosure number,
\* disclosed date, document type, figures)
DateItem(fy, disc, date, doc, facts) ==
    [Code |-> "7974", DiscDate |-> date,
     DiscNo |-> disc, DocType |-> doc,
     CurPerType |-> "2Q", CurPerEn |-> NoDate, CurFYEn |-> fy,
     Sales |-> facts[1], OP |-> facts[2], OdP |-> facts[3], NP |-> facts[4]]

\* the filings of a choice: the statement of the year before or none, the
\* statement of the date with one of two figures or none, its correction or
\* none, a revision of the earnings or of the dividend forecast or none
DateDataOf(choice) ==
    (IF choice[1] = 1
     THEN <<DateItem(20250331, <<1>>, 20241114, FS, FactProfiles[1])>>
     ELSE << >>)
    \o (IF choice[2] # 0
        THEN <<DateItem(20260331, <<3>>, 20251114, FS, FactProfiles[choice[2]])>>
        ELSE << >>)
    \o (IF choice[3] = 1
        THEN <<DateItem(20260331, <<4>>, 20251114, FS, FactProfiles[2])>>
        ELSE << >>)
    \o (IF choice[4] # 0
        THEN <<DateItem(20260331, <<5>>, 20251114,
                        IF choice[4] = 1 THEN EarnForecastRevision
                        ELSE DivForecastRevision,
                        FactProfiles[4])>>
        ELSE << >>)

DateData ==
    {DateDataOf(<<a, b, c, d>>) : a \in 0..1, b \in 0..2, c \in 0..1, d \in 0..2}

InitDate ==
    /\ \E data \in DateData : financial_statements = SyncResult({}, data).table
    /\ earnings_scores = {}
    /\ weights = DEFAULT_SCORING_WEIGHTS
    /\ call = "init"
    /\ args = << >>
    /\ ret = << >>
    /\ tasks = << >>
    /\ ai_analysis_results = {}

NextDate ==
    \E progress_callback \in BOOLEAN :
        ScoreAllForDate(IsoText(20251114), progress_callback)

SpecDate == InitDate /\ [][NextDate]_vars

----------------------------------------------------------------------------
(* Claims about the resolver *)

Canonical == call = "get_statements_for_code"

HasMarker(r) == Contains(r.type_of_document, "FinancialStatements")

\* the raw statements of the company the call was made for
Raw == {r \in financial_statements : r.code = args}

PeriodPair(r) == <<r.current_fiscal_year_end_date, r.type_of_current_period>>

DiscText(r) == DiscOrEmpty(r.disclosure_number)

\* C1: the canonical sequence holds at most one statement per
\* (fiscal-year-end date, period-type) pair, and it is a raw earnings
\* statement whose disclosure number no raw earnings statement of the pair
\* exceeds in lexical order.
C1_LatestPerPeriod ==
    Canonical =>
        \A i \in 1..Len(ret) :
            /\ \A j \in 1..Len(ret) : PeriodPair(ret[j]) = PeriodPair(ret[i]) => j = i
            /\ ret[i] \in Raw
            /\ HasMarker(ret[i])
            /\ \A r \in Raw :
                   HasMarker(r) /\ PeriodPair(r) = PeriodPair(ret[i])
                       => ~StrLT(DiscText(ret[i]), DiscText(r))

\* a correction "9" survives the filing "10" of the same period
C1_Witness ==
    /\ Canonical
    /\ \E i \in 1..Len(ret) : \E r \in Raw :
           /\ HasMarker(r)
           /\ PeriodPair(r) = PeriodPair(ret[i])
           /\ r.disclosure_number = <<1, 0>>
           /\ ret[i].disclosure_number = <<9>>

\* C2: no statement without the marker "FinancialStatements" is in the
\* canonical sequence, and every raw earnings statement has its
\* (fiscal-year-end date, period-type) pair represented there by an earnings
\* statement, whatever non-earnings statements share the pair.
C2_NonEarningsExcluded ==
    Canonical =>
        /\ \A i \in 1..Len(ret) : HasMarker(ret[i])
        /\ \A r \in Raw :
               HasMarker(r) =>
                   \E i \in 1..Len(ret) :
                       PeriodPair(ret[i]) = PeriodPair(r) /\ HasMarker(ret[i])

\* a forecast revision with the greater disclosure number shares the pair of
\* the earnings statement that is canonical
C2_Witness ==
    /\ Canonical
    /\ \E i \in 1..Len(ret) : \E r \in Raw :
           /\ ~HasMarker(r)
           /\ r.type_of_document # << >>
           /\ PeriodPair(r) = PeriodPair(ret[i])
           /\ StrLT(DiscText(ret[i]), DiscText(r))

RankOf(r) ==
    CASE r.type_of_current_period = "1Q" -> 1
      [] r.type_of_current_period = "2Q" -> 2
      [] r.type_of_current_period = "3Q" -> 3
      [] r.type_of_current_period = "FY" -> 4
      [] OTHER -> 0

\* (date, rank) of a before that of b; a missing date is before every date
PairBefore(a, b) ==
    \/ a.current_fiscal_year_end_date < b.current_fiscal_year_end_date
    \/ /\ a.current_fiscal_year_end_date = b.current_fiscal_year_end_date
       /\ RankOf(a) < RankOf(b)

\* C3 as stated: the canonical sequence is strictly increasing in
\* (fiscal-year-end date, period-type rank) for every raw collection.
C3_StrictlyIncreasing ==
    Canonical => \A i \in 1..(Len(ret) - 1) : PairBefore(ret[i], ret[i + 1])

Ranked(r) ==
    /\ r.current_fiscal_year_end_date # NoDate
    /\ r.type_of_current_period \in {"1Q", "2Q", "3Q", "FY"}

\* C3 amended: the canonical sequence is non-decreasing in
\* (fiscal-year-end date, period-type rank), and strictly increasing over
\* its statements that have a fiscal-year-end date and one of the four
\* ranked period types.
C3_SortedStrictOnRanked ==
    Canonical =>
        \A i, j \in 1..Len(ret) :
            i < j =>
                /\ ~PairBefore(ret[j], ret[i])
                /\ (Ranked(ret[i]) /\ Ranked(ret[j]) => PairBefore(ret[i], ret[j]))

\* two ranked statements of one fiscal year, stored in the other order
C3_Witness ==
    /\ Canonical
    /\ \E i, j \in 1..Len(ret) :
           /\ i < j
           /\ Ranked(ret[i]) /\ Ranked(ret[j])
           /\ ret[i].current_fiscal_year_end_date = ret[j].current_fiscal_year_end_date
           /\ ret[i].id > ret[j].id

----------------------------------------------------------------------------
(* Claims about the comparisons *)

Compared ==
    /\ call \in {"compare_year_over_year", "compare_quarter_over_quarter"}
    /\ ~ret.error

RawOf(code) == {r \in financial_statements : r.code = code}

\* C4: the previous statement of a year-over-year or quarter-over-quarter
\* result, when present, is a stored earnings statement of the company that
\* no stored earnings statement of the same (fiscal-year-end date,
\* period-type) supersedes with a greater disclosure number.
C4_PreviousIsCanonical ==
    Compared /\ ret.previous # NoStatement =>
        LET prev == ret.previous[1]
        IN  /\ prev \in RawOf(ret.code)
            /\ HasMarker(prev)
            /\ \A r \in RawOf(ret.code) :
                   HasMarker(r) /\ PeriodPair(r) = PeriodPair(prev)
                       => ~StrLT(DiscText(prev), DiscText(r))

\* the period of the previous statement was filed twice
C4_Witness ==
    /\ Compared
    /\ ret.previous # NoStatement
    /\ \E r \in RawOf(ret.code) :
           /\ r # ret.previous[1]
           /\ HasMarker(r)
           /\ PeriodPair(r) = PeriodPair(ret.previous[1])

\* positions of the canonical sequence that match (fiscal year, period type)
\* and are not the statement `cur`
Matches(st, cur, year, period) ==
    {i \in 1..Len(st) :
        /\ st[i].current_fiscal_year_end_date # NoDate
        /\ Year(st[i].current_fiscal_year_end_date) = year
        /\ st[i].type_of_current_period = period
        /\ st[i].id # cur.id}

IsFirstOf(previous, st, M) ==
    IF M = {} THEN previous = NoStatement
    ELSE \E i \in M : previous = <<st[i]>> /\ \A j \in M : i <= j

\* C5: the previous statement of a year-over-year result is the first
\* canonical statement of the fiscal year before the target's, with the
\* target's period type and another identity; it is absent when the target
\* has no fiscal-year-end date or no period type, or no statement matches.
C5_PreviousYear ==
    call = "compare_year_over_year" /\ ~ret.error =>
        LET cur == ret.current[1]
            st == get_statements_for_code(financial_statements, ret.code)
        IN  IF cur.current_fiscal_year_end_date = NoDate
               \/ cur.type_of_current_period \in {NoStr, ""}
            THEN ret.previous = NoStatement
            ELSE IsFirstOf(ret.previous, st,
                     Matches(st, cur, Year(cur.current_fiscal_year_end_date) - 1,
                             cur.type_of_current_period))

\* two canonical statements of the year before match, the first is returned
C5_Witness ==
    /\ call = "compare_year_over_year" /\ ~ret.error
    /\ ret.previous # NoStatement
    /\ LET cur == ret.current[1]
           st == get_statements_for_code(financial_statements, ret.code)
       IN  Cardinality(Matches(st, cur, Year(cur.current_fiscal_year_end_date) - 1,
                               cur.type_of_current_period)) = 2

\* C6: the previous statement of a quarter-over-quarter result is, for a
\* 2Q, 3Q or FY target of fiscal year Y, the first canonical statement of
\* year Y whose period type ranks one lower; for a 1Q target, the first
\* canonical FY statement of year Y - 1; it is absent when there is none or
\* the period type is not one of the four ranked ones.
C6_PreviousQuarter ==
    call = "compare_quarter_over_quarter" /\ ~ret.error =>
        LET cur == ret.current[1]
            st == get_statements_for_code(financial_statements, ret.code)
            Y == Year(cur.current_fiscal_year_end_date)
            p == cur.type_of_current_period
        IN  IF cur.current_fiscal_year_end_date = NoDate THEN ret.previous = NoStatement
            ELSE CASE p = "1Q" -> IsFirstOf(ret.previous, st, Matches(st, cur, Y - 1, "FY"))
                   [] p = "2Q" -> IsFirstOf(ret.previous, st, Matches(st, cur, Y, "1Q"))
                   [] p = "3Q" -> IsFirstOf(ret.previous, st, Matches(st, cur, Y, "2Q"))
                   [] p = "FY" -> IsFirstOf(ret.previous, st, Matches(st, cur, Y, "3Q"))
                   [] OTHER -> ret.previous = NoStatement

\* a first quarter is compared with the FY statement of the year before
C6_Witness ==
    /\ call = "compare_quarter_over_quarter" /\ ~ret.error
    /\ ret.current[1].type_of_current_period = "1Q"
    /\ ret.previous # NoStatement
    /\ ret.previous[1].type_of_current_period = "FY"
    /\ \E r \in RawOf(ret.code) :
           /\ HasMarker(r)
           /\ r.type_of_current_period = "FY"
           /\ r.current_fiscal_year_end_date = ret.current[1].current_fiscal_year_end_date

----------------------------------------------------------------------------
(* Claims about the change rate *)

\* the rate r equals n / d
RateIs(r, n, d) == r.some /\ r.num * d = n * r.den

Sign(x) == IF x > 0 THEN 1 ELSE IF x < 0 THEN -1 ELSE 0

\* C7: _change_rate(c, p) is absent if c or p is absent; 0 if p = 0 = c;
\* +100 if p = 0 < c; -100 if p = 0 > c; otherwise (c - p) / |p| * 100; a
\* present result has the sign of c - p; (110, 100) gives 10 and
\* (90, -100) gives 190.
C7_ChangeRate ==
    call = "_change_rate" =>
        LET c == args[1]
            p == args[2]
        IN  /\ (c = NoNum \/ p = NoNum) <=> ~ret.some
            /\ c # NoNum /\ p # NoNum =>
                   /\ Val(p) = 0 /\ Val(c) = 0 => RateIs(ret, 0, 1)
                   /\ Val(p) = 0 /\ Val(c) > 0 => RateIs(ret, 100, 1)
                   /\ Val(p) = 0 /\ Val(c) < 0 => RateIs(ret, -100, 1)
                   /\ Val(p) > 0 => RateIs(ret, (Val(c) - Val(p)) * 100, Val(p))
                   /\ Val(p) < 0 => RateIs(ret, (Val(c) - Val(p)) * 100, -Val(p))
                   /\ ret.den > 0
                   /\ Sign(ret.num) = Sign(Val(c) - Val(p))
            /\ args = <<Some(110), Some(100)>> => RateIs(ret, 10, 1)
            /\ args = <<Some(90), Some(-100)>> => RateIs(ret, 190, 1)

\* a swing from a negative base
C7_Witness ==
    /\ call = "_change_rate"
    /\ args = <<Some(90), Some(-100)>>
    /\ RateIs(ret, 190, 1)

----------------------------------------------------------------------------
(* Claims about the scorer *)

Scored == call = "score_single" /\ ~ret.raised

WeightSum ==
    weights.yoy_sales + weights.yoy_operating_income + weights.yoy_profit
        + weights.qoq_acceleration + weights.revision_flag + weights.turnaround_flag

C9_CategoryThresholds ==
    Scored =>
        /\ ret.category = "attention" <=> ret.total_score >= 800
        /\ ret.category = "review" <=> (ret.total_score >= 500 /\ ret.total_score < 800)
        /\ ret.category = "normal" <=> ret.total_score < 500

\* a score of exactly 80.0 is returned as "attention"
C9_Witness ==
    Scored /\ ret.total_score = 800 /\ ret.category = "attention"

(* Claims about the score store *)

ScoresOf(scores, code, disclosure_number) ==
    {r \in scores : r.code = code /\ r.disclosure_number = disclosure_number}

SameFields(r, result) ==
    /\ r.yoy_sales_change = result.yoy_sales_change
    /\ r.yoy_op_change = result.yoy_op_change
    /\ r.yoy_profit_change = result.yoy_profit_change
    /\ r.qoq_acceleration = result.qoq_acceleration
    /\ r.revision_flag = result.revision_flag
    /\ r.turnaround_flag = result.turnaround_flag
    /\ r.total_score = result.total_score
    /\ r.category = result.category

\* C10: with the statements and the weights unchanged, a score_and_save for
\* a (code, disclosure number) that already has a score record does not
\* raise and leaves the score store as it was, the record overwritten in
\* place with the values of the first run; and after every score_and_save
\* that returns, the store holds exactly one record of the key, whose delta,
\* flag, total_score and category fields are the returned ones.
C10_RerunOverwritesInPlace ==
    [][call' = "score_and_save" =>
          /\ ScoresOf(earnings_scores, args'[1], args'[3]) # {} =>
                 ~ret'.raised /\ earnings_scores' = earnings_scores
          /\ ~ret'.raised =>
                 /\ Cardinality(ScoresOf(earnings_scores', args'[1], args'[3])) = 1
                 /\ \A r \in ScoresOf(earnings_scores', args'[1], args'[3]) :
                        SameFields(r, ret')]_vars

\* a key was saved, another key was saved after it, and the first key was
\* saved again: its record, with deltas and a flag, is still the first row
C10_Witness ==
    /\ call = "score_and_save"
    /\ ~ret.raised
    /\ \E r \in ScoresOf(earnings_scores, args[1], args[3]) :
           /\ \E s \in earnings_scores : s.id > r.id
           /\ r.yoy_sales_change.some
           /\ r.revision_flag # 0
           /\ SameFields(r, ret)

----------------------------------------------------------------------------
(* Claims about repeated resolution *)

Columns(statements) ==
    [i \in 1..Len(statements) |-> [statements[i] EXCEPT !.id = 0]]

\* C15: the canonical sequence depends only on the set of raw statements of
\* the company, not on the order in which the store returns them: every
\* order the query can return resolves to the same sequence, also when
\* same-key candidates have equal or missing disclosure numbers or period
\* types outside the ranked four.
C15_OrderIndependent ==
    \A code \in Codes :
        \A o \in QueryOrders(financial_statements, code) :
            Columns(Resolve(o))
                = Columns(get_statements_for_code(financial_statements, code))

----------------------------------------------------------------------------
(* Claims about a scorer and a writer *)

\* a score_single call followed read by read has returned
ScoredStepwise == call = "score_single" /\ tasks.pc = "done" /\ ~ret.raised

\* the year-over-year deltas computed for the returned record
RecordDeltas ==
    {tasks.yoy[1].net_sales, tasks.yoy[1].operating_profit,
     tasks.yoy[1].ordinary_profit, tasks.yoy[1].profit}

\* C16: within one score_single the two comparisons and the signal detection
\* work on one canonical sequence, resolved from a single read of the store,
\* so that also when a writer commits between the steps the record is
\* self-consistent: revision_flag is +1 (-1) only if one of the
\* year-over-year deltas computed for the record is >= 30 (<= -30), and the
\* acceleration is computed from the deltas of one snapshot.
C16_SingleSnapshot ==
    ScoredStepwise =>
        /\ ret.revision_flag = 1 =>
               \E d \in RecordDeltas : d.some /\ RateGE(d, 30)
        /\ ret.revision_flag = -1 =>
               \E d \in RecordDeltas : d.some /\ RateLE(d, -30)
        /\ ret.qoq_acceleration
               = Acceleration(compare_quarter_over_quarter(
                                  tasks.snapshot, tasks.code, tasks.target_statement),
                              tasks.yoy[1])

\* what a run returns when it runs alone
ResultsAlone(run) ==
    score_all_for_date(financial_statements, {}, run.weights, run.target_date,
                       run.statements, FALSE).ret.results

\* C17: two score_all_for_date runs of one date with different weights do
\* not interfere: each returns, for every statement of the date, a result
\* computed with its own weights, the list it would return if it ran alone;
\* no statement is dropped because of the writes of the other run.
C17_RunsDoNotInterfere ==
    \A r \in Runs :
        tasks[r].pc = "done" => tasks[r].results = ResultsAlone(tasks[r])

----------------------------------------------------------------------------
(* Claims about the batch *)

Batched == call = "score_all_for_date"

\* the statements of the last batch, in the order it processed them
Processed == args[3]

Succeeds(stmt) ==
    ~score_single(financial_statements, weights, stmt.code, <<stmt>>).raised

EntryOf(stmt, entry) ==
    /\ entry.code = stmt.code
    /\ entry.period = StrOrEmpty(stmt.type_of_current_period)
    /\ entry.net_sales = stmt.net_sales
    /\ entry.operating_profit = stmt.operating_profit
    /\ entry.profit = stmt.profit

\* C11: when score_and_save raises for a statement of the batch, the batch
\* does not raise, the result of that statement is absent from the returned
\* list and the later statements are still processed: the list holds exactly
\* the statements whose score_and_save succeeded, and each of them has its
\* score record.
C11_FailedStatementDropped ==
    Batched =>
        /\ ~ret.raised
        /\ Len(ret.results)
               = Cardinality({i \in 1..Len(Processed) : Succeeds(Processed[i])})
        /\ \A i \in 1..Len(Processed) :
               /\ Succeeds(Processed[i])
                      <=> \E k \in 1..Len(ret.results) :
                              EntryOf(Processed[i], ret.results[k])
               /\ Succeeds(Processed[i]) =>
                      ScoresOf(earnings_scores, Processed[i].code,
                               DiscOrEmpty(Processed[i].disclosure_number)) # {}

\* a statement failed and a statement processed after it is in the list
C11_Witness ==
    /\ Batched
    /\ \E i, j \in 1..Len(Processed) :
           /\ i < j
           /\ ~Succeeds(Processed[i])
           /\ Succeeds(Processed[j])
           /\ \E k \in 1..Len(ret.results) : EntryOf(Processed[j], ret.results[k])

\* C12: with a progress callback and N statements of the date, the callback
\* is called N times, with (1, N), ..., (N, N) in this order, after each
\* statement whether it succeeded or failed, and the results and the score
\* table are those of the run without a callback.
C12_ProgressCallback ==
    [][(call' = "score_all_for_date" /\ args'[2]) =>
          LET N == Cardinality(DisclosedOn(financial_statements,
                                           ParseDateText(args'[1])))
              alone == score_all_for_date(financial_statements, earnings_scores,
                                          weights, args'[1], args'[3], FALSE)
          IN  /\ Len(ret'.progress) = N
              /\ \A i \in 1..N : ret'.progress[i] = <<i, N>>
              /\ ret'.results = alone.ret.results
              /\ earnings_scores' = alone.scores]_vars

\* the callback was called for three statements, one of which failed
C12_Witness ==
    /\ Batched
    /\ args[2]
    /\ ret.progress = <<<<1, 3>>, <<2, 3>>, <<3, 3>>>>
    /\ Len(ret.results) = 2

\* C13: the returned list is ordered by total_score, highest first, whatever
\* the statements of the date and whichever of them failed.
C13_ResultsByScoreDescending ==
    Batched =>
        \A i, j \in 1..Len(ret.results) :
            i < j => ret.results[i].total_score >= ret.results[j].total_score

\* one statement failed, and of the two in the list the one with the higher
\* score was processed last
C13_Witness ==
    /\ Batched
    /\ Len(Processed) = 3
    /\ Len(ret.results) = 2
    /\ ret.results[1].total_score > ret.results[2].total_score
    /\ \E i, j \in 1..3 :
           /\ i < j
           /\ EntryOf(Processed[i], ret.results[2])
           /\ EntryOf(Processed[j], ret.results[1])

----------------------------------------------------------------------------
(* Claims about the analyzer *)

\* the number of calls that fail with a rate-limit error before the first
\* call that does not
RECURSIVE RateLimitedCalls(_, _)
RateLimitedCalls(api, k) ==
    IF k > Len(api) THEN 0
    ELSE IF api[k].raises /\ _is_rate_limit_error(api[k].error)
                          /\ ~_is_quota_exceeded_error(api[k].error)
    THEN 1 + RateLimitedCalls(api, k + 1)
    ELSE 0

AnalyzedText == call = "analyze_earnings" /\ args[2] # << >> /\ args[3]

\* C18: when the Gemini calls of an analyze_earnings fail n times with a
\* rate-limit error, n at least 1 and at most max_retries, and the next call
\* answers, the API is called n + 1 times, the waits are
\* retry_base_wait * 2^attempt for attempt 0..n-1, and the result is the
\* parsed answer with is_error False.
C18_RetriesOnRateLimit ==
    AnalyzedText =>
        LET self == args[1]
            api == args[4]
            n == RateLimitedCalls(api, 1)
        IN  (n >= 1 /\ n <= self.max_retries /\ ~api[n + 1].raises) =>
                /\ ret.calls = n + 1
                /\ ret.wait_calls
                     = [i \in 1..n |-> self.retry_base_wait * Pow2(i - 1)]
                /\ ~ret.result.is_error
                /\ ret.result.summary = _parse_response(api[n + 1].text).summary

\* C19: when the Gemini call of an analyze_earnings fails with a message
\* holding "exceeded your current quota", the API is called once, nothing is
\* waited for, and the result has is_error True and error_type
\* "quota_exceeded", whatever max_retries is.
C19_QuotaExceededStops ==
    (/\ AnalyzedText
     /\ args[4][1].raises
     /\ Occurs(<<"exceeded", "your", "current", "quota">>,
               LowerText(args[4][1].error))) =>
        /\ ret.calls = 1
        /\ ret.wait_calls = << >>
        /\ ret.result.is_error
        /\ ret.result.error_type = "quota_exceeded"

BatchAnalyzed == call = "batch_analyze"

\* analyze_and_save returned an error result of type quota_exceeded
QuotaReturned(invocation) ==
    /\ ~invocation.raised
    /\ invocation.result.is_error
    /\ invocation.result.error_type = "quota_exceeded"

\* C20: in a batch_analyze, after the analyze_and_save of an item has returned
\* an error result with error_type "quota_exceeded", analyze_and_save is
\* invoked for no later item and each later item has an entry with success
\* False and error_type "quota_exceeded"; the list returned has one entry per
\* item, in the order of the items.
C20_QuotaSkipsRemaining ==
    BatchAnalyzed =>
        LET items == args[2]
        IN  /\ Len(ret.results) = Len(items)
            /\ \A i \in 1..Len(items) : ret.results[i].code = items[i].code
            /\ \A k \in 1..Len(ret.invoked) :
                   QuotaReturned(ret.invoked[k]) =>
                       /\ k = Len(ret.invoked)
                       /\ \A j \in (ret.invoked[k].item + 1)..Len(items) :
                              /\ ~ret.results[j].success
                              /\ ret.results[j].error_type = "quota_exceeded"

\* a batch of three items of two companies: the first is analyzed, the second
\* ends with the quota error, the third is skipped
C20_Witness ==
    /\ BatchAnalyzed
    /\ Len(args[2]) = 3
    /\ args[2][1].code # args[2][3].code
    /\ Len(ret.invoked) = 2
    /\ ret.results[1].success
    /\ QuotaReturned(ret.invoked[2])
    /\ ret.results[3] = SkippedEntry(args[2][3].code)

----------------------------------------------------------------------------
(* Claims about the uniqueness of a match *)

\* the positions of the canonical sequence st that satisfy the year-over-year
\* criteria for the target cur
YoYMatches(st, cur) ==
    IF cur.current_fiscal_year_end_date = NoDate
       \/ cur.type_of_current_period \in {NoStr, ""}
    THEN {}
    ELSE Matches(st, cur, Year(cur.current_fiscal_year_end_date) - 1,
                 cur.type_of_current_period)

\* the positions that satisfy the quarter-over-quarter criteria
QoQMatches(st, cur) ==
    IF cur.current_fiscal_year_end_date = NoDate THEN {}
    ELSE LET Y == Year(cur.current_fiscal_year_end_date)
             p == cur.type_of_current_period
         IN  CASE p = "1Q" -> Matches(st, cur, Y - 1, "FY")
               [] p = "2Q" -> Matches(st, cur, Y, "1Q")
               [] p = "3Q" -> Matches(st, cur, Y, "2Q")
               [] p = "FY" -> Matches(st, cur, Y, "3Q")
               [] OTHER -> {}

\* C21: after a comparison, every statement of the company's canonical
\* sequence, taken as target, has at most one statement of the sequence that
\* satisfies the year-over-year criteria and at most one that satisfies the
\* quarter-over-quarter criteria.
C21_AtMostOneMatch ==
    Compared =>
        LET st == get_statements_for_code(financial_statements, ret.code)
        IN  \A i \in 1..Len(st) :
                /\ Cardinality(YoYMatches(st, st[i])) <= 1
                /\ Cardinality(QoQMatches(st, st[i])) <= 1

----------------------------------------------------------------------------
(* Claims about the signals *)

\* detect_signals was called for a company that has a canonical sequence
Detected ==
    /\ call = "detect_signals"
    /\ get_statements_for_code(financial_statements, args[1]) # << >>

DetectedSequence == get_statements_for_code(financial_statements, args[1])

DetectedTarget == TargetOrLast(DetectedSequence, args[2])

DetectedYoy == compare_year_over_year(financial_statements, args[1], args[2])

HasTag(signals, tag) == \E i \in 1..Len(signals) : signals[i].tag = tag

HasSignal(signals, tag, label) ==
    \E i \in 1..Len(signals) : signals[i] = [tag |-> tag, label |-> label]

\* the other canonical statements with the target's period type and an
\* operating profit
Comparable(st, cur) ==
    {i \in 1..Len(st) :
        /\ st[i].type_of_current_period = cur.type_of_current_period
        /\ st[i].operating_profit # NoNum
        /\ st[i].id # cur.id}

RecordExpected(st, cur) ==
    /\ cur.operating_profit # NoNum
    /\ Comparable(st, cur) # {}
    /\ \A i \in Comparable(st, cur) :
           Val(cur.operating_profit) > Val(st[i].operating_profit)

\* C22: detect_signals returns the record-operating-profit tag exactly when
\* the target has an operating profit, some other canonical statement of its
\* period type has one, and the target's is greater than all of them, with
\* or without a statement of the year before.
C22_RecordHigh ==
    Detected =>
        (HasTag(ret, "record_high")
            <=> RecordExpected(DetectedSequence, DetectedTarget))

FactLabels == <<"net_sales", "operating_profit", "ordinary_profit", "profit">>

LargeMoveTags == {"large_increase", "large_decrease"}

\* C23: for each of the four facts detect_signals returns the large-increase
\* tag iff the year-over-year delta of the fact is present and >= 30, the
\* large-decrease tag iff it is present and <= -30; the tags come in the
\* order sales, operating profit, ordinary profit, profit, and a fact has at
\* most one of them.
C23_LargeMoves ==
    Detected =>
        /\ \A f \in 1..4 :
               LET val == DetectedYoy[FactLabels[f]]
               IN  /\ HasSignal(ret, "large_increase", FactLabels[f])
                       <=> (val.some /\ val.num >= 30 * val.den)
                   /\ HasSignal(ret, "large_decrease", FactLabels[f])
                       <=> (val.some /\ val.num <= -30 * val.den)
                   /\ ~(/\ HasSignal(ret, "large_increase", FactLabels[f])
                        /\ HasSignal(ret, "large_decrease", FactLabels[f]))
        /\ \A i, j \in 1..Len(ret) :
               (i < j /\ ret[i].tag \in LargeMoveTags /\ ret[j].tag \in LargeMoveTags)
                   => \E f, g \in 1..4 :
                          /\ f < g
                          /\ ret[i].label = FactLabels[f]
                          /\ ret[j].label = FactLabels[g]

\* sales and operating profit are up by exactly 30 per cent, ordinary profit
\* is down by exactly 30 per cent, and the three tags come in this order
C23_Witness ==
    /\ Detected
    /\ DetectedYoy.net_sales = Rate(30, 1)
    /\ DetectedYoy.ordinary_profit = Rate(-30, 1)
    /\ Len(ret) >= 3
    /\ ret[1] = Signal("large_increase", "net_sales")
    /\ ret[2] = Signal("large_increase", "operating_profit")
    /\ ret[3] = Signal("large_decrease", "ordinary_profit")

\* both net profits of a year-over-year result are present
BothProfits(yoy) ==
    /\ yoy.previous # NoStatement
    /\ yoy.current[1].profit # NoNum
    /\ yoy.previous[1].profit # NoNum

\* C24: detect_signals returns the turned-profitable tag iff the net profits
\* of the target and of the statement of the year before are both present
\* with previous < 0 <= current, the turned-unprofitable tag iff both are
\* present with previous >= 0 > current, and never both.
C24_Turnaround ==
    Detected =>
        LET yoy == DetectedYoy
        IN  /\ HasTag(ret, "turned_profitable")
                <=> (/\ BothProfits(yoy)
                     /\ Val(yoy.previous[1].profit) < 0
                     /\ Val(yoy.current[1].profit) >= 0)
            /\ HasTag(ret, "turned_unprofitable")
                <=> (/\ BothProfits(yoy)
                     /\ Val(yoy.previous[1].profit) >= 0
                     /\ Val(yoy.current[1].profit) < 0)
            /\ ~(HasTag(ret, "turned_profitable") /\ HasTag(ret, "turned_unprofitable"))

\* a loss of the year before and a profit of exactly 0
C24_Witness ==
    /\ Detected
    /\ BothProfits(DetectedYoy)
    /\ Val(DetectedYoy.previous[1].profit) < 0
    /\ Val(DetectedYoy.current[1].profit) = 0
    /\ HasTag(ret, "turned_profitable")

----------------------------------------------------------------------------
(* Claims about the flags and the sub-scores *)

ScoredYoy == compare_year_over_year(financial_statements, args[1], args[2])

ScoredQoq == compare_quarter_over_quarter(financial_statements, args[1], args[2])

IsLargeUp(val) == val.some /\ val.num >= 30 * val.den

IsLargeDown(val) == val.some /\ val.num <= -30 * val.den

\* the facts, by their position in FactLabels, whose delta is a large move
TaggedFacts(yoy) ==
    {f \in 1..4 : IsLargeUp(yoy[FactLabels[f]]) \/ IsLargeDown(yoy[FactLabels[f]])}

FirstTagged(yoy) == CHOOSE f \in TaggedFacts(yoy) : \A g \in TaggedFacts(yoy) : f <= g

\* C25: the revision_flag of a score_single record is 0 when no fact has a
\* large move, and otherwise +1 or -1 as the first fact with a large move, in
\* the order sales, operating profit, ordinary profit, profit, is a large
\* increase or a large decrease, whatever the turnaround and record-high
\* tags; with all the weight on the revision flag the total score is 100, 0
\* and 50 for the flags +1, -1 and 0.
C25_RevisionFlag ==
    Scored =>
        LET yoy == ScoredYoy
            flag == IF TaggedFacts(yoy) = {} THEN 0
                    ELSE IF IsLargeUp(yoy[FactLabels[FirstTagged(yoy)]]) THEN 1
                    ELSE -1
        IN  /\ ret.revision_flag = flag
            /\ weights = WeightMap(0, 0, 0, 0, 100, 0) =>
                   ret.total_score = (CASE flag = 1 -> 1000
                                        [] flag = -1 -> 0
                                        [] OTHER -> 500)

\* the first fact with a large move has a large decrease and a later fact a
\* large increase, the record carries a turnaround tag, and all the weight
\* is on the revision flag
C25_Witness ==
    /\ Scored
    /\ weights = WeightMap(0, 0, 0, 0, 100, 0)
    /\ IsLargeDown(ScoredYoy.net_sales)
    /\ IsLargeUp(ScoredYoy.profit)
    /\ ret.revision_flag = -1
    /\ ret.turnaround_flag # 0

\* the rate acc equals a - b
IsDifference(acc, a, b) ==
    acc.some /\ acc.num * (a.den * b.den) = (a.num * b.den - b.num * a.den) * acc.den

\* C26: in a score_single record the qoq_acceleration is the QoQ
\* operating-profit delta minus the YoY operating-profit delta when both are
\* present and absent otherwise; with all the weight on one delta the total
\* score is 50 when that delta is absent: for the sales delta, and for the
\* acceleration.
C26_AbsentIsNeutral ==
    Scored =>
        LET yoy == ScoredYoy
            qoq == ScoredQoq
        IN  /\ ret.qoq_acceleration.some
                <=> (qoq.operating_profit.some /\ yoy.operating_profit.some)
            /\ ret.qoq_acceleration.some =>
                   IsDifference(ret.qoq_acceleration, qoq.operating_profit,
                                yoy.operating_profit)
            /\ (weights = WeightMap(100, 0, 0, 0, 0, 0) /\ ~yoy.net_sales.some) =>
                   ret.total_score = 500
            /\ (weights = WeightMap(0, 0, 0, 100, 0, 0) /\ ~ret.qoq_acceleration.some) =>
                   ret.total_score = 500

\* the YoY operating-profit delta is present, the QoQ one is not, and all the
\* weight is on the acceleration
C26_Witness ==
    /\ Scored
    /\ weights = WeightMap(0, 0, 0, 100, 0, 0)
    /\ ScoredYoy.operating_profit.some
    /\ ScoredYoy.operating_profit.num # 0
    /\ ~ScoredQoq.operating_profit.some
    /\ ~ret.qoq_acceleration.some
    /\ ret.total_score = 500

----------------------------------------------------------------------------
(* Claims about the statements of a date *)

IsCanonical(stmt) ==
    LET st == get_statements_for_code(financial_statements, stmt.code)
    IN  \E k \in 1..Len(st) : st[k] = stmt

\* C27: every statement that a score_all_for_date passes to score_and_save
\* is in the canonical sequence of its company, and no score record has the
\* company and disclosure number of a stored filing that is not an earnings
\* statement.
C27_OnlyCanonicalScored ==
    call = "score_all_for_date" =>
        /\ \A i \in 1..Len(args[3]) : IsCanonical(args[3][i])
        /\ \A r \in earnings_scores :
               \A s \in financial_statements :
                   (s.code = r.code
                        /\ DiscOrEmpty(s.disclosure_number) = r.disclosure_number)
                       => _is_earnings_statement(s.type_of_document)

----------------------------------------------------------------------------
(* Claims about the saved analysis *)

AnalysisReturned == call = "analyze_and_save"

FailedAnalysis == AnalysisReturned /\ ~ret.raised /\ ret.result.is_error

----------------------------------------------------------------------------
(* Claims about the retries *)

\* what analyze_pdf is to return for the outcome of its last call
ExpectedOfLast(outcome, result) ==
    CASE outcome = Responds(OkText) ->
             ~result.is_error /\ result.summary = OkText.summary
      [] outcome = Responds(EmptyText) ->
             result.is_error /\ result.error_type = "empty_response"
      [] outcome = Raises(QuotaError) ->
             result.is_error /\ result.error_type = "quota_exceeded"
      [] outcome = Raises(RateLimitError) ->
             result.is_error /\ result.error_type = "rate_limited"
      [] outcome = Raises(Timeout) ->
             result.is_error /\ result.error_type = "api_error"

\* C29: an analyze_pdf that reaches the service makes between one and
\* max_retries + 1 generate_content calls; every call but the last ended in
\* a rate-limit error and was followed by a sleep of
\* retry_base_wait * 2^attempt; the last call is the first one that did not
\* end in a rate-limit error, or the call of the last attempt; the result is
\* the one of the last call's outcome: no error, empty_response,
\* quota_exceeded, rate_limited or api_error.
C29_BoundedRetries ==
    (call = "analyze_pdf" /\ args[2] = "ok" /\ args[3]) =>
        LET self == args[1]
            api == args[4]
            n == ret.calls
        IN  /\ n \in 1..(self.max_retries + 1)
            /\ \A k \in 1..(n - 1) : api[k] = Raises(RateLimitError)
            /\ api[n] = Raises(RateLimitError) => n = self.max_retries + 1
            /\ ret.wait_calls
                   = [k \in 1..(n - 1) |-> self.retry_base_wait * Pow2(k - 1)]
            /\ ExpectedOfLast(api[n], ret.result)
            /\ ret.result.is_error =>
                   ret.result.error_type \in {"quota_exceeded", "rate_limited",
                                              "api_error", "empty_response"}

\* two rate-limit errors were slept over and the third call answered
C29_Witness ==
    /\ call = "analyze_pdf"
    /\ args[2] = "ok" /\ args[3]
    /\ args[1].max_retries = MaxRetries
    /\ ret.calls = MaxRetries + 1
    /\ Len(ret.wait_calls) = MaxRetries
    /\ ~ret.result.is_error

----------------------------------------------------------------------------
(* Claims about the synchronisation *)

\* the last item of the data with the key of item i
LastWithKey(data, i) ==
    CHOOSE j \in DOMAIN data :
        /\ data[j].Code = data[i].Code /\ data[j].DiscNo = data[i].DiscNo
        /\ \A k \in DOMAIN data :
               (data[k].Code = data[i].Code /\ data[k].DiscNo = data[i].DiscNo)
                   => k <= j

\* C30: a sync_statements_by_date whose items all have a disclosure number
\* commits, and afterwards every (code, disclosure number) of the data has
\* exactly one stored statement, with the values of the last item of the
\* data with that key.
C30_UpsertByKey ==
    (call = "sync_statements_by_date"
         /\ \A i \in DOMAIN args : args[i].DiscNo # NoDisc) =>
        /\ ret = "ok"
        /\ \A i \in DOMAIN args :
               LET rows == StoredWithKey(financial_statements, args[i].Code,
                                         args[i].DiscNo)
               IN  /\ Cardinality(rows) = 1
                   /\ \A r \in rows :
                          r = WithId(StatementValues(args[LastWithKey(args, i)]),
                                     r.id)

====
